---------------------------- MODULE Spec2Model ----------------------------
(***************************************************************************)
(* Model of the lttng-tools session daemon core:                           *)
(*   - the tracepoint event rule (src/common/event-rule/tracepoint.c and   *)
(*     event-rule.c): creation, setters, serialization to a byte payload,  *)
(*     creation from a payload, equality, hash, agent filter generation;   *)
(*   - the main() of lttng-sessiond (src/bin/lttng-sessiond/main.c):       *)
(*     initialization steps, the teardown sequence and the exit status.    *)
(*                                                                         *)
(* C strings are sequences of character codes (1..255) without their       *)
(* terminator; a byte buffer is a sequence of 0..255; the NUL terminator   *)
(* is the byte 0.  A null pointer to a string is NULL, a null pointer to   *)
(* a structure is a record with the single field "null".                   *)
(***************************************************************************)
EXTENDS Integers, Sequences, FiniteSets, TLC

VARIABLES
    host,        \* the build: byte order and sizeof(size_t)
    rule,        \* the tracepoint rule under construction (or NullRule)
    call,        \* the last event-rule API call: operation, argument, result
    payload,     \* struct lttng_payload: the bytes of payload->buffer
    view_offset, \* where the view handed to create_from_payload starts
    decoded,     \* result of the last lttng_event_rule_create_from_payload
    other,       \* a second, independently built rule (equality and hash)
    pc,          \* main(): the statement main is at
    retval,      \* main(): its retval variable
    exit_status, \* the status passed to exit(), or "none"
    cfg,         \* main(): is_root, config.no_kernel, config.daemonize, opt_print_version
    made,        \* main(): the handles, pipes and threads created so far
    running,     \* the worker threads that are running
    failed_step, \* main(): the initialization step that failed, or "none"
    log,         \* teardown steps main has performed, in order
    quit_pipe,   \* thread quit pipe: "closed", "open" or "notified"
    sessions,    \* session list: id -> "absent" | "active" | "destroyed"
    triggers,    \* triggers registered with the notification thread
    consumers,   \* consumer daemons: "none" | "running" | "exited" | "waited"
    files,       \* the runtime directory and the files and directories under it
    recv_child_signal, \* main.c: set by the handler of SIGUSR1
    config,      \* struct sessiond_config: the fields set_option writes
    setuid,      \* lttng_is_setuid_setgid()
    opt_call,    \* the last set_option call: option, argument, result
    accounting,  \* event notifier error accounting: nb_bucket, index of each trigger
    acct_call,   \* the last error accounting call and its status
    ref,         \* struct urcu_ref of a rule, and what became of the rule
    holders,     \* the threads that use the rule: position, references owned
    err_call,    \* the last error_get_str call: code and string returned
    session_list \* destroy_all_sessions_and_wait: the sessions and its position

rule_vars == <<host, rule, call, payload, view_offset, decoded, other>>
env_vars == <<consumers, files, recv_child_signal>>
main_vars == <<pc, retval, exit_status, cfg, made, running, failed_step, log,
               quit_pipe, sessions, triggers, env_vars>>
opt_vars == <<config, setuid, opt_call>>
acct_vars == <<accounting, acct_call>>
ref_vars == <<ref, holders>>
err_vars == <<err_call>>
list_vars == <<session_list>>
side_vars == <<opt_vars, acct_vars, ref_vars, err_vars, list_vars>>
vars == <<rule_vars, main_vars, side_vars>>

(***************************************************************************)
(* Bounds of the model.                                                    *)
(***************************************************************************)
MaxExclusions == 2
MaxSessions == 2
MaxTriggers == 1

(***************************************************************************)
(* Program constants.                                                      *)
(***************************************************************************)
LTTNG_DOMAIN_NONE == 0
LTTNG_DOMAIN_KERNEL == 1
LTTNG_DOMAIN_UST == 2
LTTNG_DOMAIN_JUL == 3
LTTNG_DOMAIN_LOG4J == 4
LTTNG_DOMAIN_PYTHON == 5

LTTNG_EVENT_RULE_TYPE_TRACEPOINT == 0
LTTNG_EVENT_RULE_TYPE_SYSCALL == 1
LTTNG_EVENT_RULE_TYPE_KERNEL_PROBE == 2
LTTNG_EVENT_RULE_TYPE_KERNEL_FUNCTION == 3
LTTNG_EVENT_RULE_TYPE_USERSPACE_PROBE == 4

LTTNG_LOG_LEVEL_RULE_TYPE_EXACTLY == 0
LTTNG_LOG_LEVEL_RULE_TYPE_AT_LEAST_AS_SEVERE_AS == 1

LTTNG_LOGLEVEL_EMERG == 0
LTTNG_LOGLEVEL_DEBUG == 14

LTTNG_SYMBOL_NAME_LEN == 256

INT32_MAX == 2147483647
INT32_MIN == -INT32_MAX - 1

Domains ==
    {LTTNG_DOMAIN_KERNEL, LTTNG_DOMAIN_UST, LTTNG_DOMAIN_JUL,
     LTTNG_DOMAIN_LOG4J, LTTNG_DOMAIN_PYTHON}

AgentDomains == {LTTNG_DOMAIN_JUL, LTTNG_DOMAIN_LOG4J, LTTNG_DOMAIN_PYTHON}

(***************************************************************************)
(* Null pointers.                                                          *)
(***************************************************************************)
NULL == <<-1>>
NullRule == [null |-> "rule"]
NullLLR == [null |-> "log_level_rule"]
NullBytecode == [null |-> "bytecode"]

(***************************************************************************)
(* C library.                                                              *)
(***************************************************************************)
strlen(s) == Len(s)

strcmp(s, t) == IF s = t THEN 0 ELSE 1

\* The bytes of a string with its terminator.
WithNul(s) == s \o <<0>>

RECURSIVE Digits(_)
Digits(n) ==
    IF n < 10 THEN <<48 + n>> ELSE Digits(n \div 10) \o <<48 + (n % 10)>>

\* The digits of -v for v < 0, computed without negating INT32_MIN.
AbsDigits(v) ==
    LET m == -(v + 1)
        q == (m \div 10) + (IF m % 10 = 9 THEN 1 ELSE 0)
        d == ((m % 10) + 1) % 10
    IN  IF q = 0 THEN <<48 + d>> ELSE Digits(q) \o <<48 + d>>

\* printf("%d", v)
FormatD(v) == IF v < 0 THEN <<45>> \o AbsDigits(v) ELSE Digits(v)

RECURSIVE Concat(_)
Concat(parts) ==
    IF parts = <<>> THEN <<>> ELSE Head(parts) \o Concat(Tail(parts))

(***************************************************************************)
(* Object representation of integers on the host.                          *)
(***************************************************************************)
\* Two's complement: % and \div round towards minus infinity.
RECURSIVE LittleEndian(_, _)
LittleEndian(v, size) ==
    IF size = 0 THEN <<>>
    ELSE <<v % 256>> \o LittleEndian(v \div 256, size - 1)

RECURSIVE Reverse(_)
Reverse(s) == IF s = <<>> THEN <<>> ELSE Reverse(Tail(s)) \o <<Head(s)>>

\* The `size` bytes in memory of the integer v.
ObjectBytes(v, size) ==
    IF host.big_endian THEN Reverse(LittleEndian(v, size))
    ELSE LittleEndian(v, size)

RECURSIVE LittleEndianValue(_)
LittleEndianValue(bytes) ==
    IF bytes = <<>> THEN 0
    ELSE Head(bytes) + 256 * LittleEndianValue(Tail(bytes))

\* The bytes of an object, least significant first.
HostOrder(bytes) == IF host.big_endian THEN Reverse(bytes) ELSE bytes

\* The value the bytes hold as an int32_t.
Int32Value(bytes) ==
    LET le == HostOrder(bytes)
    IN  LittleEndianValue(SubSeq(le, 1, 3))
        + 16777216 * (IF le[4] >= 128 THEN le[4] - 256 ELSE le[4])

\* The value the bytes hold as a uint32_t.  The model's integers end at
\* INT32_MAX: a larger value, which exceeds the size of every buffer of the
\* model, reads as INT32_MAX.
Uint32Value(bytes) ==
    IF HostOrder(bytes)[4] >= 128 THEN INT32_MAX
    ELSE LittleEndianValue(HostOrder(bytes))

\* The value of a byte as an int8_t, and back.
Int8Value(b) == IF b >= 128 THEN b - 256 ELSE b
Int8Byte(v) == v % 256


(***************************************************************************)
(* Dynamic buffer and buffer views (common/dynamic-buffer.c,               *)
(* common/buffer-view.c).  A view is the sub-range [off+1 .. off+size] of  *)
(* the bytes it was taken from; an invalid view has no data.               *)
(***************************************************************************)
lttng_dynamic_buffer_append(buffer, bytes) == buffer \o bytes

InvalidView == [valid |-> FALSE, off |-> 0, size |-> 0]

\* len = -1 asks for the rest of the source.
lttng_buffer_view_from_view(src, offset, len) ==
    IF offset > Len(src) THEN InvalidView
    ELSE IF len # -1 /\ len > Len(src) - offset THEN InvalidView
    ELSE [valid |-> TRUE, off |-> offset,
          size |-> IF len = -1 THEN Len(src) - offset ELSE len]

lttng_buffer_view_is_valid(view) == view.valid /\ view.size > 0

ViewData(src, view) == SubSeq(src, view.off + 1, view.off + view.size)

\* The string that starts the view is terminated by the first NUL found at
\* exactly len_with_null_terminator bytes.
lttng_buffer_view_contains_string(src, view, len_with_null_terminator) ==
    LET data == ViewData(src, view)
        nuls == {i \in 1..Len(data) : data[i] = 0}
    IN  /\ view.size > 0
        /\ nuls # {}
        /\ (CHOOSE i \in nuls : \A j \in nuls : i <= j) = len_with_null_terminator

\* The string held by a view that contains one.
ViewString(src, view, len_with_null_terminator) ==
    SubSeq(src, view.off + 1, view.off + len_with_null_terminator - 1)

(***************************************************************************)
(* Log level rule (common/log-level-rule.c).  Serialized as the packed     *)
(* struct lttng_log_level_rule_comm {int8_t type; int32_t level}.          *)
(***************************************************************************)
lttng_log_level_rule_exactly_create(level) ==
    [type |-> LTTNG_LOG_LEVEL_RULE_TYPE_EXACTLY, level |-> level]

lttng_log_level_rule_at_least_as_severe_as_create(level) ==
    [type |-> LTTNG_LOG_LEVEL_RULE_TYPE_AT_LEAST_AS_SEVERE_AS, level |-> level]

lttng_log_level_rule_get_type(llr) == llr.type

lttng_log_level_rule_copy(llr) == [type |-> llr.type, level |-> llr.level]

lttng_log_level_rule_is_equal(a, b) ==
    IF a = NullLLR \/ b = NullLLR THEN a = NullLLR /\ b = NullLLR
    ELSE a.type = b.type /\ a.level = b.level

LLRCommSize == 5

lttng_log_level_rule_serialize(llr, buffer) ==
    IF llr = NullLLR THEN buffer
    ELSE lttng_dynamic_buffer_append(buffer,
             <<Int8Byte(llr.type)>> \o ObjectBytes(llr.level, 4))

\* [ret |-> consumed size or -1, log_level_rule |-> the rule or NullLLR]
lttng_log_level_rule_create_from_payload(bytes) ==
    IF Len(bytes) < LLRCommSize
    THEN [ret |-> -1, log_level_rule |-> NullLLR]
    ELSE LET type == Int8Value(bytes[1])
             level == Int32Value(SubSeq(bytes, 2, 5))
         IN  IF type \in {LTTNG_LOG_LEVEL_RULE_TYPE_EXACTLY,
                          LTTNG_LOG_LEVEL_RULE_TYPE_AT_LEAST_AS_SEVERE_AS}
             THEN [ret |-> LLRCommSize,
                   log_level_rule |-> [type |-> type, level |-> level]]
             ELSE [ret |-> -1, log_level_rule |-> NullLLR]

(***************************************************************************)
(* Hash primitives (common/hashtable/utils.c), on HashBits-bit words.      *)
(***************************************************************************)
HashBits == 15
lttng_ht_seed == 7

RECURSIVE Xor(_, _)
Xor(a, b) ==
    IF a = 0 THEN b
    ELSE IF b = 0 THEN a
    ELSE ((a + b) % 2) + 2 * Xor(a \div 2, b \div 2)

hash_key_ulong(key, seed) ==
    (((key % (2 ^ HashBits)) * 40503) + seed * 31 + 1) % (2 ^ HashBits)

RECURSIVE PowMod(_, _)
PowMod(b, e) ==
    IF e = 0 THEN 1
    ELSE LET h == PowMod(b, e \div 2)
         IN  (((h * h) % (2 ^ HashBits)) * (IF e % 2 = 1 THEN b ELSE 1)) % (2 ^ HashBits)

\* Sum of str[i] * 33^(hi - i) for i in lo..hi, folded by halves.
RECURSIVE StrPoly(_, _, _)
StrPoly(str, lo, hi) ==
    IF lo > hi THEN 0
    ELSE IF lo = hi THEN str[lo] % (2 ^ HashBits)
    ELSE LET mid == (lo + hi) \div 2
         IN  (StrPoly(str, lo, mid) * PowMod(33, hi - mid) + StrPoly(str, mid + 1, hi))
                 % (2 ^ HashBits)

hash_key_str(str, seed) ==
    ((seed % (2 ^ HashBits)) * PowMod(33, Len(str)) + StrPoly(str, 1, Len(str)))
        % (2 ^ HashBits)

lttng_log_level_rule_hash(llr) ==
    Xor(hash_key_ulong(llr.type, lttng_ht_seed),
        hash_key_ulong(llr.level, lttng_ht_seed))

(***************************************************************************)
(* Tracepoint event rule: getters.                                         *)
(***************************************************************************)
IS_TRACEPOINT_EVENT_RULE(r) ==
    r # NullRule /\ r.type = LTTNG_EVENT_RULE_TYPE_TRACEPOINT

lttng_event_rule_tracepoint_get_pattern(r) ==
    IF ~IS_TRACEPOINT_EVENT_RULE(r) THEN [status |-> "INVALID", pattern |-> NULL]
    ELSE IF r.pattern = NULL THEN [status |-> "UNSET", pattern |-> NULL]
    ELSE [status |-> "OK", pattern |-> r.pattern]

lttng_event_rule_tracepoint_get_domain_type(r) ==
    IF ~IS_TRACEPOINT_EVENT_RULE(r)
    THEN [status |-> "INVALID", type |-> LTTNG_DOMAIN_NONE]
    ELSE [status |-> "OK", type |-> r.domain]

lttng_event_rule_tracepoint_get_filter(r) ==
    IF ~IS_TRACEPOINT_EVENT_RULE(r)
    THEN [status |-> "INVALID", expression |-> NULL]
    ELSE IF r.filter_expression = NULL
    THEN [status |-> "UNSET", expression |-> NULL]
    ELSE [status |-> "OK", expression |-> r.filter_expression]

lttng_event_rule_tracepoint_get_log_level_rule(r) ==
    IF ~IS_TRACEPOINT_EVENT_RULE(r)
    THEN [status |-> "INVALID", log_level_rule |-> NullLLR]
    ELSE IF r.log_level_rule = NullLLR
    THEN [status |-> "UNSET", log_level_rule |-> NullLLR]
    ELSE [status |-> "OK", log_level_rule |-> r.log_level_rule]

lttng_event_rule_tracepoint_get_exclusions_count(r) ==
    IF ~IS_TRACEPOINT_EVENT_RULE(r) THEN [status |-> "INVALID", count |-> 0]
    ELSE [status |-> "OK", count |-> Len(r.exclusions)]

\* An index past the end leaves the output untouched and still reports OK.
lttng_event_rule_tracepoint_get_exclusion_at_index(r, index) ==
    IF ~IS_TRACEPOINT_EVENT_RULE(r)
    THEN [status |-> "INVALID", written |-> FALSE, exclusion |-> NULL]
    ELSE IF lttng_event_rule_tracepoint_get_exclusions_count(r).status # "OK"
    THEN [status |-> "OK", written |-> FALSE, exclusion |-> NULL]
    ELSE IF index >= lttng_event_rule_tracepoint_get_exclusions_count(r).count
    THEN [status |-> "OK", written |-> FALSE, exclusion |-> NULL]
    ELSE [status |-> "OK", written |-> TRUE,
          exclusion |-> r.exclusions[index + 1]]

(***************************************************************************)
(* Tracepoint event rule: setters.  Each returns the status and the rule   *)
(* as the call leaves it.                                                  *)
(***************************************************************************)
lttng_event_rule_tracepoint_set_pattern(r, pattern) ==
    IF ~IS_TRACEPOINT_EVENT_RULE(r) \/ pattern = NULL
    THEN [status |-> "INVALID", rule |-> r]
    ELSE IF strlen(pattern) = 0
    THEN [status |-> "INVALID", rule |-> r]
    ELSE [status |-> "OK", rule |-> [r EXCEPT !.pattern = pattern]]

\* set_filter releasing the filter the rule has before it looks at the new
\* one: C28_FailedSetterKeepsRule does not hold of it.
set_filter_releasing_first(r, expression) ==
    IF ~IS_TRACEPOINT_EVENT_RULE(r) \/ expression = NULL \/ strlen(expression) = 0
    THEN [status |-> "INVALID",
          rule |-> IF IS_TRACEPOINT_EVENT_RULE(r)
                   THEN [r EXCEPT !.filter_expression = NULL] ELSE r]
    ELSE [status |-> "OK", rule |-> [r EXCEPT !.filter_expression = expression]]

lttng_event_rule_tracepoint_set_filter(r, expression) ==
    IF ~IS_TRACEPOINT_EVENT_RULE(r) \/ expression = NULL
    THEN [status |-> "INVALID", rule |-> r]
    ELSE IF strlen(expression) = 0
    THEN [status |-> "INVALID", rule |-> r]
    ELSE [status |-> "OK", rule |-> [r EXCEPT !.filter_expression = expression]]

\* log_level_rule_valid with the upper limit of LTTNG_DOMAIN_UST one level
\* too high: C5_LogLevelRange does not hold of it.
log_level_rule_valid_one_more(llr, domain) ==
    LET level == llr.level
    IN  CASE domain = LTTNG_DOMAIN_KERNEL -> FALSE
          [] domain = LTTNG_DOMAIN_UST ->
                IF level < LTTNG_LOGLEVEL_EMERG THEN FALSE
                ELSE IF level > LTTNG_LOGLEVEL_DEBUG + 1 THEN FALSE
                ELSE TRUE
          [] domain \in {LTTNG_DOMAIN_JUL, LTTNG_DOMAIN_LOG4J,
                         LTTNG_DOMAIN_PYTHON} -> TRUE

log_level_rule_valid(llr, domain) ==
    LET level == llr.level
    IN  CASE domain = LTTNG_DOMAIN_KERNEL -> FALSE
          [] domain = LTTNG_DOMAIN_UST ->
                IF level < LTTNG_LOGLEVEL_EMERG THEN FALSE
                ELSE IF level > LTTNG_LOGLEVEL_DEBUG THEN FALSE
                ELSE TRUE
          [] domain \in {LTTNG_DOMAIN_JUL, LTTNG_DOMAIN_LOG4J,
                         LTTNG_DOMAIN_PYTHON} -> TRUE

\* domain_supports_log_levels answering true for LTTNG_DOMAIN_KERNEL too:
\* C4_LogLevelRuleSupport does not hold of it.
domain_supports_log_levels_kernel_too(domain) ==
    CASE domain \in {LTTNG_DOMAIN_KERNEL, LTTNG_DOMAIN_UST, LTTNG_DOMAIN_JUL,
                     LTTNG_DOMAIN_LOG4J, LTTNG_DOMAIN_PYTHON} -> TRUE

domain_supports_log_levels(domain) ==
    CASE domain = LTTNG_DOMAIN_KERNEL -> FALSE
      [] domain \in {LTTNG_DOMAIN_UST, LTTNG_DOMAIN_JUL, LTTNG_DOMAIN_LOG4J,
                     LTTNG_DOMAIN_PYTHON} -> TRUE

lttng_event_rule_tracepoint_set_log_level_rule(r, llr) ==
    IF ~IS_TRACEPOINT_EVENT_RULE(r) THEN [status |-> "INVALID", rule |-> r]
    ELSE IF ~domain_supports_log_levels(r.domain)
    THEN [status |-> "UNSUPPORTED", rule |-> r]
    ELSE IF ~log_level_rule_valid(llr, r.domain)
    THEN [status |-> "INVALID", rule |-> r]
    ELSE [status |-> "OK",
          rule |-> [r EXCEPT !.log_level_rule = lttng_log_level_rule_copy(llr)]]

\* add_exclusion refusing only LTTNG_DOMAIN_KERNEL: C3_ExclusionSupport does
\* not hold of it.
add_exclusion_kernel_only(r, exclusion) ==
    IF ~IS_TRACEPOINT_EVENT_RULE(r) \/ exclusion = NULL
    THEN [status |-> "INVALID", rule |-> r]
    ELSE IF r.domain = LTTNG_DOMAIN_KERNEL
    THEN [status |-> "UNSUPPORTED", rule |-> r]
    ELSE IF strlen(exclusion) >= LTTNG_SYMBOL_NAME_LEN
    THEN [status |-> "INVALID", rule |-> r]
    ELSE [status |-> "OK",
          rule |-> [r EXCEPT !.exclusions = Append(@, exclusion)]]

lttng_event_rule_tracepoint_add_exclusion(r, exclusion) ==
    IF ~IS_TRACEPOINT_EVENT_RULE(r) \/ exclusion = NULL
    THEN [status |-> "INVALID", rule |-> r]
    ELSE IF lttng_event_rule_tracepoint_get_domain_type(r).status # "OK"
    THEN [status |-> lttng_event_rule_tracepoint_get_domain_type(r).status,
          rule |-> r]
    ELSE IF lttng_event_rule_tracepoint_get_domain_type(r).type \in
                {LTTNG_DOMAIN_KERNEL, LTTNG_DOMAIN_JUL, LTTNG_DOMAIN_LOG4J,
                 LTTNG_DOMAIN_PYTHON}
    THEN [status |-> "UNSUPPORTED", rule |-> r]
    ELSE IF strlen(exclusion) >= LTTNG_SYMBOL_NAME_LEN
    THEN [status |-> "INVALID", rule |-> r]
    ELSE [status |-> "OK",
          rule |-> [r EXCEPT !.exclusions = Append(@, exclusion)]]

(***************************************************************************)
(* Tracepoint event rule: creation.                                        *)
(***************************************************************************)
\* create without the default pattern: C6_CreateDefaults does not hold of it.
create_without_pattern(domain_type) ==
    IF domain_type = LTTNG_DOMAIN_NONE THEN NullRule
    ELSE [type |-> LTTNG_EVENT_RULE_TYPE_TRACEPOINT,
          domain |-> domain_type,
          pattern |-> NULL,
          filter_expression |-> NULL,
          log_level_rule |-> NullLLR,
          exclusions |-> <<>>,
          internal_filter |-> [filter |-> NULL, bytecode |-> NullBytecode]]

lttng_event_rule_tracepoint_create(domain_type) ==
    IF domain_type = LTTNG_DOMAIN_NONE THEN NullRule
    ELSE LET tp_rule ==
                 [type |-> LTTNG_EVENT_RULE_TYPE_TRACEPOINT,
                  domain |-> domain_type,
                  pattern |-> NULL,
                  filter_expression |-> NULL,
                  log_level_rule |-> NullLLR,
                  exclusions |-> <<>>,
                  internal_filter |-> [filter |-> NULL, bytecode |-> NullBytecode]]
             set == lttng_event_rule_tracepoint_set_pattern(tp_rule, <<42>>)
         IN  IF set.status # "OK" THEN NullRule ELSE set.rule

lttng_event_rule_tracepoint_validate(r) ==
    IF r = NullRule THEN FALSE
    ELSE IF r.pattern = NULL THEN FALSE
    ELSE IF r.domain = LTTNG_DOMAIN_NONE THEN FALSE
    ELSE TRUE

(***************************************************************************)
(* Serialization.  struct lttng_event_rule_comm is one int8_t (the type);  *)
(* the packed struct lttng_event_rule_tracepoint_comm is                   *)
(*   int8_t domain_type; uint32_t pattern_len, filter_expression_len,      *)
(*   log_level_rule_len, exclusions_count, exclusions_len;                 *)
(* followed by the pattern, the filter expression, the log level rule and  *)
(* the exclusions (a 32-bit length, then the name), strings with their     *)
(* terminator.                                                             *)
(***************************************************************************)
EventRuleCommSize == 1
TracepointCommSize == 21
SizeofUint32 == 4

\* Offsets of the header's fields.
OffPatternLen == 1
OffFilterExpressionLen == 5
OffLogLevelRuleLen == 9
OffExclusionsCount == 13
OffExclusionsLen == 17

Uint32Field(bytes, offset) ==
    Uint32Value(SubSeq(bytes, offset + 1, offset + SizeofUint32))

LeaveUnpatched(bytes, offset, v) == bytes

PatchUint32(bytes, offset, v) ==
    [i \in 1..Len(bytes) |->
        IF i > offset /\ i <= offset + SizeofUint32
        THEN ObjectBytes(v, SizeofUint32)[i - offset]
        ELSE bytes[i]]

RECURSIVE ExclusionsLen(_)
ExclusionsLen(exclusions) ==
    IF exclusions = <<>> THEN 0
    ELSE SizeofUint32 + strlen(Head(exclusions)) + 1 + ExclusionsLen(Tail(exclusions))

\* The first sizeof(uint32_t) bytes of the size_t object `len`, then the name.
\* [buffer, exclusions_appended_len] once every exclusion is appended.
RECURSIVE AppendExclusions(_, _, _)
AppendExclusions(buffer, exclusions, exclusions_appended_len) ==
    IF exclusions = <<>>
    THEN [buffer |-> buffer, exclusions_appended_len |-> exclusions_appended_len]
    ELSE LET exclusion == Head(exclusions)
             len == strlen(exclusion) + 1
             b1 == lttng_dynamic_buffer_append(buffer,
                       SubSeq(ObjectBytes(len, host.sizeof_size_t), 1, SizeofUint32))
             b2 == lttng_dynamic_buffer_append(b1, WithNul(exclusion))
         IN  AppendExclusions(b2, Tail(exclusions),
                 exclusions_appended_len + SizeofUint32 + len)

\* [ret |-> 0 or -1, buffer |-> payload->buffer as the call leaves it,
\*  aborted |-> the closing assertion failed]
lttng_event_rule_tracepoint_serialize(r, buffer) ==
    IF ~IS_TRACEPOINT_EVENT_RULE(r)
    THEN [ret |-> -1, buffer |-> buffer, aborted |-> FALSE]
    ELSE
    LET header_offset == Len(buffer)
        exclusion_count == lttng_event_rule_tracepoint_get_exclusions_count(r).count
        pattern_len == strlen(r.pattern) + 1
        filter_expression_len ==
            IF r.filter_expression # NULL THEN strlen(r.filter_expression) + 1
            ELSE 0
        exclusions_len == ExclusionsLen(r.exclusions)
        \* log_level_rule_len is not set yet: whatever the stack held (0 here).
        tracepoint_comm ==
            <<Int8Byte(r.domain)>>
            \o ObjectBytes(pattern_len, SizeofUint32)
            \o ObjectBytes(filter_expression_len, SizeofUint32)
            \o ObjectBytes(0, SizeofUint32)
            \o ObjectBytes(exclusion_count, SizeofUint32)
            \o ObjectBytes(exclusions_len, SizeofUint32)
        b1 == lttng_dynamic_buffer_append(buffer, tracepoint_comm)
        b2 == lttng_dynamic_buffer_append(b1, WithNul(r.pattern))
        b3 == lttng_dynamic_buffer_append(b2,
                  IF filter_expression_len = 0 THEN <<>>
                  ELSE WithNul(r.filter_expression))
        size_before_log_level_rule == Len(b3)
        b4 == lttng_log_level_rule_serialize(r.log_level_rule, b3)
        b5 == PatchUint32(b4, header_offset + OffLogLevelRuleLen,
                  Len(b4) - size_before_log_level_rule)
        b6 == AppendExclusions(b5, r.exclusions, 0)
    IN  [ret |-> 0, buffer |-> b6.buffer,
         aborted |-> exclusions_len # b6.exclusions_appended_len]

lttng_event_rule_serialize(r, buffer) ==
    IF r = NullRule THEN [ret |-> -1, buffer |-> buffer, aborted |-> FALSE]
    ELSE lttng_event_rule_tracepoint_serialize(r,
             lttng_dynamic_buffer_append(buffer, <<Int8Byte(r.type)>>))

(***************************************************************************)
(* Creation from a payload.  ret is the number of bytes consumed, or -1 on  *)
(* a rejected payload; aborted tells that an assertion failed instead (the *)
(* call does not return).                                                  *)
(***************************************************************************)
Rejected == [ret |-> -1, rule |-> NullRule, aborted |-> FALSE]
Aborted == [ret |-> 0, rule |-> NullRule, aborted |-> TRUE]

\* The loop over the exclusions: [ok, offset, rule] after reading `left` more.
RECURSIVE ReadExclusions(_, _, _, _)
ReadExclusions(buf, offset, left, r) ==
    IF left = 0 THEN [ok |-> TRUE, offset |-> offset, rule |-> r]
    ELSE
    LET len_view == lttng_buffer_view_from_view(buf, offset, SizeofUint32)
    IN  IF ~lttng_buffer_view_is_valid(len_view)
        THEN [ok |-> FALSE, offset |-> offset, rule |-> r]
        ELSE
        LET exclusion_len == Uint32Value(ViewData(buf, len_view))
            offset2 == offset + SizeofUint32
            str_view == lttng_buffer_view_from_view(buf, offset2, exclusion_len)
        IN  IF ~lttng_buffer_view_is_valid(str_view)
            THEN [ok |-> FALSE, offset |-> offset2, rule |-> r]
            ELSE IF ~lttng_buffer_view_contains_string(buf, str_view, exclusion_len)
            THEN [ok |-> FALSE, offset |-> offset2, rule |-> r]
            ELSE
            LET add == lttng_event_rule_tracepoint_add_exclusion(r,
                           ViewString(buf, str_view, exclusion_len))
            IN  IF add.status # "OK"
                THEN [ok |-> FALSE, offset |-> offset2, rule |-> r]
                ELSE ReadExclusions(buf, offset2 + exclusion_len, left - 1, add.rule)

\* The setters applied once the whole payload is mapped.
FinishFromPayload(r, offset, pattern, filter_expression, log_level_rule) ==
    LET p == lttng_event_rule_tracepoint_set_pattern(r, pattern)
        f == IF filter_expression # NULL
             THEN lttng_event_rule_tracepoint_set_filter(p.rule, filter_expression)
             ELSE [status |-> "OK", rule |-> p.rule]
        l == IF log_level_rule # NullLLR
             THEN lttng_event_rule_tracepoint_set_log_level_rule(f.rule, log_level_rule)
             ELSE [status |-> "OK", rule |-> f.rule]
    IN  IF p.status # "OK" THEN Rejected
        ELSE IF f.status # "OK" THEN Rejected
        ELSE IF l.status # "OK" THEN Rejected
        ELSE [ret |-> offset, rule |-> l.rule, aborted |-> FALSE]

\* After the filter expression: the log level rule, then the exclusions.
FromLogLevelRule(buf, r, offset, pattern, filter_expression) ==
    LET log_level_rule_len == Uint32Field(buf, OffLogLevelRuleLen)
        exclusions_count == Uint32Field(buf, OffExclusionsCount)
        llr_view == lttng_buffer_view_from_view(buf, offset, log_level_rule_len)
        llr == IF log_level_rule_len = 0
               THEN [ret |-> 0, log_level_rule |-> NullLLR]
               ELSE lttng_log_level_rule_create_from_payload(ViewData(buf, llr_view))
        offset2 == offset + log_level_rule_len
        excl == ReadExclusions(buf, offset2, exclusions_count, r)
    IN  IF llr.ret < 0 THEN Rejected
        ELSE IF llr.ret # log_level_rule_len THEN Aborted
        ELSE IF ~excl.ok THEN Rejected
        ELSE FinishFromPayload(excl.rule, excl.offset, pattern,
                 filter_expression, llr.log_level_rule)

\* After the pattern: the filter expression.
FromFilterExpression(buf, r, offset, pattern) ==
    LET filter_expression_len == Uint32Field(buf, OffFilterExpressionLen)
        filter_view == lttng_buffer_view_from_view(buf, offset, filter_expression_len)
    IN  IF filter_expression_len = 0
        THEN FromLogLevelRule(buf, r, offset, pattern, NULL)
        ELSE IF ~lttng_buffer_view_is_valid(filter_view) THEN Rejected
        ELSE IF ~lttng_buffer_view_contains_string(buf, filter_view,
                     filter_expression_len)
        THEN Rejected
        ELSE FromLogLevelRule(buf, r, offset + filter_expression_len, pattern,
                 ViewString(buf, filter_view, filter_expression_len))

\* buf: the bytes of the view handed in.
lttng_event_rule_tracepoint_create_from_payload(buf) ==
    LET header_view == lttng_buffer_view_from_view(buf, 0, TracepointCommSize)
    IN  IF ~lttng_buffer_view_is_valid(header_view) THEN Rejected
        ELSE
        LET domain_type == Int8Value(buf[1])
            pattern_len == Uint32Field(buf, OffPatternLen)
            r == lttng_event_rule_tracepoint_create(domain_type)
            offset == header_view.size
            pattern_view == lttng_buffer_view_from_view(buf, offset, pattern_len)
        IN  IF domain_type <= LTTNG_DOMAIN_NONE \/ domain_type > LTTNG_DOMAIN_PYTHON
            THEN Rejected
            ELSE IF r = NullRule THEN Rejected
            ELSE IF ~lttng_buffer_view_is_valid(pattern_view) THEN Rejected
            ELSE IF ~lttng_buffer_view_contains_string(buf, pattern_view, pattern_len)
            THEN Rejected
            ELSE FromFilterExpression(buf, r, offset + pattern_len,
                     ViewString(buf, pattern_view, pattern_len))

lttng_event_rule_validate(r) ==
    IF r = NullRule THEN FALSE ELSE lttng_event_rule_tracepoint_validate(r)

\* The reader the switch on the type selects.  The kernel function type has
\* none (create_from_payload stays NULL); an unknown type is refused.
ReaderOfType(type) ==
    CASE type = LTTNG_EVENT_RULE_TYPE_TRACEPOINT -> "tracepoint"
      [] type = LTTNG_EVENT_RULE_TYPE_KERNEL_PROBE -> "kernel_probe"
      [] type = LTTNG_EVENT_RULE_TYPE_KERNEL_FUNCTION -> "NULL"
      [] type = LTTNG_EVENT_RULE_TYPE_USERSPACE_PROBE -> "userspace_probe"
      [] type = LTTNG_EVENT_RULE_TYPE_SYSCALL -> "syscall"
      [] OTHER -> "unknown type"

\* The readers of the kernel probe, user space probe and syscall rules: the
\* payloads of this model hold tracepoint rules, which they reject.
OtherReader(buf) == Rejected

\* assert(create_from_payload) fails on a reader left NULL.  *event_rule is
\* written by the reader alone: it keeps the rule when the validation fails.
lttng_event_rule_create_from_payload(buf) ==
    LET comm_view == lttng_buffer_view_from_view(buf, 0, EventRuleCommSize)
    IN  IF ~lttng_buffer_view_is_valid(comm_view) THEN Rejected
        ELSE
        LET create_from_payload == ReaderOfType(Int8Value(buf[1]))
            consumed == EventRuleCommSize
            child_view == ViewData(buf, lttng_buffer_view_from_view(buf, consumed, -1))
            child == IF create_from_payload = "tracepoint"
                     THEN lttng_event_rule_tracepoint_create_from_payload(child_view)
                     ELSE OtherReader(child_view)
        IN  IF create_from_payload = "unknown type" THEN Rejected
            ELSE IF create_from_payload = "NULL" THEN Aborted
            ELSE IF child.aborted THEN Aborted
            ELSE IF child.ret < 0 THEN Rejected
            ELSE IF ~lttng_event_rule_validate(child.rule)
            THEN [ret |-> -1, rule |-> child.rule, aborted |-> FALSE]
            ELSE [ret |-> consumed + child.ret, rule |-> child.rule, aborted |-> FALSE]

(***************************************************************************)
(* Equality and hash.                                                      *)
(***************************************************************************)
\* is_equal without the comparison of the log level rules:
\* C2_EqualRulesHashEqual does not hold of it.
is_equal_without_log_level_rule(a, b) ==
    LET count_a == lttng_event_rule_tracepoint_get_exclusions_count(a).count
        count_b == lttng_event_rule_tracepoint_get_exclusions_count(b).count
    IN  IF a.domain # b.domain THEN FALSE
        ELSE IF count_a # count_b THEN FALSE
        ELSE IF (a.filter_expression # NULL) # (b.filter_expression # NULL) THEN FALSE
        ELSE IF strcmp(a.pattern, b.pattern) # 0 THEN FALSE
        ELSE IF /\ a.filter_expression # NULL
                /\ b.filter_expression # NULL
                /\ strcmp(a.filter_expression, b.filter_expression) # 0
        THEN FALSE
        ELSE \A i \in 0..(count_a - 1) :
                 strcmp(lttng_event_rule_tracepoint_get_exclusion_at_index(a, i).exclusion,
                        lttng_event_rule_tracepoint_get_exclusion_at_index(b, i).exclusion) = 0

is_equal_in_any_exclusion_order(a, b) ==
    /\ a.domain = b.domain
    /\ a.pattern = b.pattern
    /\ a.filter_expression = b.filter_expression
    /\ lttng_log_level_rule_is_equal(a.log_level_rule, b.log_level_rule)
    /\ Len(a.exclusions) = Len(b.exclusions)
    /\ {a.exclusions[i] : i \in DOMAIN a.exclusions}
           = {b.exclusions[i] : i \in DOMAIN b.exclusions}

lttng_event_rule_tracepoint_is_equal(a, b) ==
    LET count_a == lttng_event_rule_tracepoint_get_exclusions_count(a).count
        count_b == lttng_event_rule_tracepoint_get_exclusions_count(b).count
    IN  IF a.domain # b.domain THEN FALSE
        ELSE IF count_a # count_b THEN FALSE
        ELSE IF (a.filter_expression # NULL) # (b.filter_expression # NULL) THEN FALSE
        ELSE IF strcmp(a.pattern, b.pattern) # 0 THEN FALSE
        ELSE IF /\ a.filter_expression # NULL
                /\ b.filter_expression # NULL
                /\ strcmp(a.filter_expression, b.filter_expression) # 0
        THEN FALSE
        ELSE IF ~lttng_log_level_rule_is_equal(a.log_level_rule, b.log_level_rule)
        THEN FALSE
        ELSE \A i \in 0..(count_a - 1) :
                 strcmp(lttng_event_rule_tracepoint_get_exclusion_at_index(a, i).exclusion,
                        lttng_event_rule_tracepoint_get_exclusion_at_index(b, i).exclusion) = 0

\* The pointer comparison a == b is between objects: two rules of the model
\* are always two objects.
lttng_event_rule_is_equal(a, b) ==
    IF a = NullRule \/ b = NullRule THEN FALSE
    ELSE IF a.type # b.type THEN FALSE
    ELSE lttng_event_rule_tracepoint_is_equal(a, b)

RECURSIVE HashExclusions(_, _)
HashExclusions(hash, exclusions) ==
    IF exclusions = <<>> THEN hash
    ELSE HashExclusions(Xor(hash, hash_key_str(Head(exclusions), lttng_ht_seed)),
             Tail(exclusions))

lttng_event_rule_tracepoint_hash(r) ==
    LET h1 == hash_key_ulong(LTTNG_EVENT_RULE_TYPE_TRACEPOINT, lttng_ht_seed)
        h2 == Xor(h1, hash_key_ulong(r.domain, lttng_ht_seed))
        h3 == Xor(h2, hash_key_str(r.pattern, lttng_ht_seed))
        h4 == IF r.filter_expression # NULL
              THEN Xor(h3, hash_key_str(r.filter_expression, lttng_ht_seed))
              ELSE h3
        h5 == IF r.log_level_rule # NullLLR
              THEN Xor(h4, lttng_log_level_rule_hash(r.log_level_rule))
              ELSE h4
    IN  HashExclusions(h5, r.exclusions)

lttng_event_rule_hash(r) == lttng_event_rule_tracepoint_hash(r)

(***************************************************************************)
(* Filter generation.  Format strings of generate_agent_filter:            *)
(*   "(%s) && (logger_name == \"%s\")"     "logger_name == \"%s\""         *)
(*   "(%s) && (int_loglevel %s %d)"        "int_loglevel %s %d"            *)
(***************************************************************************)
\* asprintf(&agent_filter, "(%s) && (logger_name == \"%s\")", filter, pattern)
FormatFilterAndLoggerName(filter, pattern) ==
    Concat(<< <<40>>, filter,
              <<41, 32, 38, 38, 32, 40, 108, 111, 103, 103, 101, 114, 95, 110, 97,
                109, 101, 32, 61, 61, 32, 34>>,
              pattern, <<34, 41>> >>)

\* asprintf(&agent_filter, "logger_name == \"%s\"", pattern)
FormatLoggerName(pattern) ==
    Concat(<< <<108, 111, 103, 103, 101, 114, 95, 110, 97, 109, 101, 32, 61, 61,
                32, 34>>,
              pattern, <<34>> >>)

\* asprintf(&new_filter, "(%s) && (int_loglevel %s %d)", filter, op, level)
FormatFilterAndLoglevel(filter, op, level) ==
    Concat(<< <<40>>, filter,
              <<41, 32, 38, 38, 32, 40, 105, 110, 116, 95, 108, 111, 103, 108, 101,
                118, 101, 108, 32>>,
              op, <<32>>, FormatD(level), <<41>> >>)

\* asprintf(&agent_filter, "int_loglevel %s %d", op, level)
FormatLoglevel(op, level) ==
    Concat(<< <<105, 110, 116, 95, 108, 111, 103, 108, 101, 118, 101, 108, 32>>,
              op, <<32>>, FormatD(level) >>)

\* generate_agent_filter with the operator >= for both kinds of log level
\* rule: C7_AgentFilterText does not hold of it.
generate_agent_filter_always_ge(r) ==
    LET pattern == lttng_event_rule_tracepoint_get_pattern(r)
        got_filter == lttng_event_rule_tracepoint_get_filter(r)
        filter == IF got_filter.status = "UNSET" THEN NULL ELSE got_filter.expression
        \* Don't add filter for the '*' event.
        agent_filter1 ==
            IF strcmp(pattern.pattern, <<42>>) # 0
            THEN IF filter # NULL
                 THEN FormatFilterAndLoggerName(filter, pattern.pattern)
                 ELSE FormatLoggerName(pattern.pattern)
            ELSE NULL
        llr == lttng_event_rule_tracepoint_get_log_level_rule(r)
        op == <<62, 61>>
        level == llr.log_level_rule.level
        agent_filter2 ==
            IF llr.status = "OK"
            THEN IF filter # NULL \/ agent_filter1 # NULL
                 THEN FormatFilterAndLoglevel(
                          IF agent_filter1 # NULL THEN agent_filter1 ELSE filter,
                          op, level)
                 ELSE FormatLoglevel(op, level)
            ELSE agent_filter1
    IN  IF pattern.status # "OK" THEN [ret |-> -1, agent_filter |-> NULL]
        ELSE IF got_filter.status \notin {"UNSET", "OK"}
        THEN [ret |-> -1, agent_filter |-> NULL]
        ELSE [ret |-> 0, agent_filter |-> agent_filter2]

\* [ret |-> 0 or -1, agent_filter |-> the string, or NULL]
generate_agent_filter(r) ==
    LET pattern == lttng_event_rule_tracepoint_get_pattern(r)
        got_filter == lttng_event_rule_tracepoint_get_filter(r)
        filter == IF got_filter.status = "UNSET" THEN NULL ELSE got_filter.expression
        \* Don't add filter for the '*' event.
        agent_filter1 ==
            IF strcmp(pattern.pattern, <<42>>) # 0
            THEN IF filter # NULL
                 THEN FormatFilterAndLoggerName(filter, pattern.pattern)
                 ELSE FormatLoggerName(pattern.pattern)
            ELSE NULL
        llr == lttng_event_rule_tracepoint_get_log_level_rule(r)
        op == IF lttng_log_level_rule_get_type(llr.log_level_rule) =
                     LTTNG_LOG_LEVEL_RULE_TYPE_EXACTLY
              THEN <<61, 61>> ELSE <<62, 61>>       \* "==", ">="
        level == llr.log_level_rule.level
        agent_filter2 ==
            IF llr.status = "OK"
            THEN IF filter # NULL \/ agent_filter1 # NULL
                 THEN FormatFilterAndLoglevel(
                          IF agent_filter1 # NULL THEN agent_filter1 ELSE filter,
                          op, level)
                 ELSE FormatLoglevel(op, level)
            ELSE agent_filter1
    IN  IF pattern.status # "OK" THEN [ret |-> -1, agent_filter |-> NULL]
        ELSE IF got_filter.status \notin {"UNSET", "OK"}
        THEN [ret |-> -1, agent_filter |-> NULL]
        ELSE [ret |-> 0, agent_filter |-> agent_filter2]

\* The bytecode the external compiler produces for a filter: opaque.
BytecodeOf(filter) == [of |-> filter]

\* compiler_ret: what run_as_generate_filter_bytecode returns.
\* [ret_code, rule as the call leaves it]
lttng_event_rule_tracepoint_generate_filter_bytecode(r, compiler_ret) ==
    LET got_filter == lttng_event_rule_tracepoint_get_filter(r)
        filter == IF got_filter.status = "UNSET" THEN NULL ELSE got_filter.expression
        domain == lttng_event_rule_tracepoint_get_domain_type(r)
        agent == generate_agent_filter(r)
        internal ==
            IF domain.type \in {LTTNG_DOMAIN_LOG4J, LTTNG_DOMAIN_JUL, LTTNG_DOMAIN_PYTHON}
            THEN agent.agent_filter
            ELSE filter
        r1 == [r EXCEPT !.internal_filter.filter = internal]
    IN  IF got_filter.status \notin {"UNSET", "OK"}
        THEN [ret_code |-> "LTTNG_ERR_FILTER_INVAL", rule |-> r]
        ELSE IF filter # NULL /\ filter = <<>>
        THEN [ret_code |-> "LTTNG_ERR_FILTER_INVAL", rule |-> r]
        ELSE IF domain.status # "OK"
        THEN [ret_code |-> "LTTNG_ERR_UNK", rule |-> r]
        ELSE IF /\ domain.type \in {LTTNG_DOMAIN_LOG4J, LTTNG_DOMAIN_JUL,
                                     LTTNG_DOMAIN_PYTHON}
                /\ agent.ret # 0
        THEN [ret_code |-> "LTTNG_ERR_FILTER_INVAL", rule |-> r]
        ELSE IF r1.internal_filter.filter = NULL
        THEN [ret_code |-> "LTTNG_OK", rule |-> r1]
        ELSE IF compiler_ret # 0
        THEN [ret_code |-> "LTTNG_ERR_FILTER_INVAL", rule |-> r1]
        ELSE [ret_code |-> "LTTNG_OK",
              rule |-> [r1 EXCEPT !.internal_filter.bytecode =
                                      BytecodeOf(r1.internal_filter.filter)]]

(***************************************************************************)
(* Arguments the callers hand to the event-rule functions.                 *)
(***************************************************************************)
NameOfLen(n) == [i \in 1..n |-> 120]

PatternArgs == {NULL, <<>>, <<42>>, <<97>>}               \* NULL, "", "*", "a"
FilterArgs == {NULL, <<>>, <<102>>}                       \* NULL, "", "f"
ExclusionArgs ==                                          \* NULL, "x", "y", ...
    {NULL, <<120>>, <<121>>, NameOfLen(LTTNG_SYMBOL_NAME_LEN - 1),
     NameOfLen(LTTNG_SYMBOL_NAME_LEN)}
Levels ==
    {INT32_MIN, LTTNG_LOGLEVEL_EMERG - 1, LTTNG_LOGLEVEL_EMERG,
     LTTNG_LOGLEVEL_DEBUG, LTTNG_LOGLEVEL_DEBUG + 1, INT32_MAX}
LogLevelRuleArgs ==
    {lttng_log_level_rule_exactly_create(l) : l \in Levels}
    \cup {lttng_log_level_rule_at_least_as_severe_as_create(l) : l \in Levels}

Hosts == [big_endian : BOOLEAN, sizeof_size_t : {4, 8}]
LittleEndian64 == [big_endian |-> FALSE, sizeof_size_t |-> 8]

NoCall == [op |-> "none", arg |-> <<>>, status |-> "none"]
NoDecoded == [ret |-> 0, rule |-> NullRule, aborted |-> FALSE]

\* The three consumer_data of main.c: kconsumer_data, ustconsumer64_data and
\* ustconsumer32_data.
ConsumerTypes == {"kconsumer", "ustconsumer64", "ustconsumer32"}

\* The options, the error accounting and the reference count of a rule,
\* for the specifications that leave them alone.
OptIdle == config = <<>> /\ setuid = FALSE /\ opt_call = <<>>

AcctIdle == accounting = <<>> /\ acct_call = <<>>

RefIdle == ref = <<>> /\ holders = <<>>

ErrIdle == err_call = <<>>

ListIdle == session_list = <<>>

SideIdle == OptIdle /\ AcctIdle /\ RefIdle /\ ErrIdle /\ ListIdle

\* No rule, for the specifications that leave the event rules alone.
RuleIdle ==
    /\ host = LittleEndian64
    /\ rule = NullRule
    /\ call = NoCall
    /\ payload = <<>>
    /\ view_offset = 0
    /\ decoded = NoDecoded
    /\ other = NullRule

\* main() before it starts, for the specifications that leave it alone.
MainIdle ==
    /\ pc = "idle"
    /\ retval = 0
    /\ exit_status = "none"
    /\ cfg = [is_root |-> FALSE, no_kernel |-> FALSE, daemonize |-> FALSE,
              print_version |-> FALSE]
    /\ made = {}
    /\ running = {}
    /\ failed_step = "none"
    /\ log = <<>>
    /\ quit_pipe = "closed"
    /\ sessions = [i \in 1..MaxSessions |-> "absent"]
    /\ triggers = {}
    /\ consumers = [c \in ConsumerTypes |-> "none"]
    /\ files = {}
    /\ recv_child_signal = 0

(***************************************************************************)
(* SpecRule: one tracepoint rule driven through its public functions.      *)
(***************************************************************************)
\* lttng_strncpy(dst, src, dst_len): fails when src and its terminator do
\* not fit; otherwise dst, zeroed by zmalloc, holds src followed by zeros.
lttng_strncpy(src, dst_len) ==
    IF strlen(src) >= dst_len THEN [ret |-> -1, dst |-> <<>>]
    ELSE [ret |-> 0, dst |-> src \o [k \in 1..(dst_len - strlen(src)) |-> 0]]

\* *exclusions = NULL.
NullExclusions == [null |-> "exclusions"]

generate_exclusions_for_any_domain(r, zmalloc_fails) ==
    IF Len(r.exclusions) = 0 THEN [status |-> "NONE", exclusions |-> NullExclusions]
    ELSE [status |-> "OK",
          exclusions |->
              [count |-> Len(r.exclusions),
               names |-> [i \in 1..Len(r.exclusions) |->
                             lttng_strncpy(r.exclusions[i], LTTNG_SYMBOL_NAME_LEN).dst]]]

\* lttng_event_rule_tracepoint_generate_exclusions(rule, &exclusions): the
\* status and what *exclusions is set to, a struct lttng_event_exclusion
\* (count and names of LTTNG_SYMBOL_NAME_LEN bytes each) or NULL.
lttng_event_rule_tracepoint_generate_exclusions(r, zmalloc_fails) ==
    LET domain_type == lttng_event_rule_tracepoint_get_domain_type(r).type
        nb_exclusions == lttng_event_rule_tracepoint_get_exclusions_count(r).count
        copies == [i \in 1..nb_exclusions |->
                      lttng_strncpy(
                          lttng_event_rule_tracepoint_get_exclusion_at_index(r, i - 1).exclusion,
                          LTTNG_SYMBOL_NAME_LEN)]
    IN  IF domain_type \in {LTTNG_DOMAIN_KERNEL, LTTNG_DOMAIN_JUL, LTTNG_DOMAIN_LOG4J,
                            LTTNG_DOMAIN_PYTHON}
        THEN [status |-> "NONE", exclusions |-> NullExclusions]
        ELSE IF domain_type # LTTNG_DOMAIN_UST
        THEN [status |-> "ABORT", exclusions |-> NullExclusions]
        ELSE IF nb_exclusions = 0 THEN [status |-> "NONE", exclusions |-> NullExclusions]
        ELSE IF zmalloc_fails THEN [status |-> "OUT_OF_MEMORY", exclusions |-> NullExclusions]
        ELSE IF \E i \in 1..nb_exclusions : copies[i].ret # 0
        THEN [status |-> "ERROR", exclusions |-> NullExclusions]
        ELSE [status |-> "OK",
              exclusions |-> [count |-> nb_exclusions,
                              names |-> [i \in 1..nb_exclusions |-> copies[i].dst]]]

InitRule ==
    /\ host = LittleEndian64
    /\ rule = NullRule
    /\ call = NoCall
    /\ payload = <<>>
    /\ view_offset = 0
    /\ decoded = NoDecoded
    /\ other = NullRule
    /\ MainIdle
    /\ SideIdle

Create(domain_type) ==
    /\ rule = NullRule
    /\ rule' = lttng_event_rule_tracepoint_create(domain_type)
    /\ call' = [op |-> "create", arg |-> domain_type,
                status |-> IF rule' = NullRule THEN "NULL" ELSE "OK"]
    /\ UNCHANGED <<host, payload, view_offset, decoded, other, main_vars, side_vars>>

Destroy ==
    /\ rule # NullRule
    /\ rule' = NullRule
    /\ call' = [op |-> "destroy", arg |-> <<>>, status |-> "OK"]
    /\ UNCHANGED <<host, payload, view_offset, decoded, other, main_vars, side_vars>>

SetPattern(pattern) ==
    /\ rule # NullRule
    /\ LET res == lttng_event_rule_tracepoint_set_pattern(rule, pattern)
       IN  /\ rule' = res.rule
           /\ call' = [op |-> "set_pattern", arg |-> pattern, status |-> res.status]
    /\ UNCHANGED <<host, payload, view_offset, decoded, other, main_vars, side_vars>>

SetFilter(expression) ==
    /\ rule # NullRule
    /\ LET res == lttng_event_rule_tracepoint_set_filter(rule, expression)
       IN  /\ rule' = res.rule
           /\ call' = [op |-> "set_filter", arg |-> expression, status |-> res.status]
    /\ UNCHANGED <<host, payload, view_offset, decoded, other, main_vars, side_vars>>

SetLogLevelRule(llr) ==
    /\ rule # NullRule
    /\ LET res == lttng_event_rule_tracepoint_set_log_level_rule(rule, llr)
       IN  /\ rule' = res.rule
           /\ call' = [op |-> "set_log_level_rule", arg |-> llr, status |-> res.status]
    /\ UNCHANGED <<host, payload, view_offset, decoded, other, main_vars, side_vars>>

AddExclusion(exclusion) ==
    /\ rule # NullRule
    /\ Len(rule.exclusions) < MaxExclusions
    /\ LET res == lttng_event_rule_tracepoint_add_exclusion(rule, exclusion)
       IN  /\ rule' = res.rule
           /\ call' = [op |-> "add_exclusion", arg |-> exclusion, status |-> res.status]
    /\ UNCHANGED <<host, payload, view_offset, decoded, other, main_vars, side_vars>>

\* generate_exclusions on the rule; zmalloc may fail.
GenerateExclusions(zmalloc_fails) ==
    /\ rule # NullRule
    /\ LET res == lttng_event_rule_tracepoint_generate_exclusions(rule, zmalloc_fails)
       IN  call' = [op |-> "generate_exclusions",
                    arg |-> [zmalloc_fails |-> zmalloc_fails,
                             exclusions |-> res.exclusions],
                    status |-> res.status]
    /\ UNCHANGED <<host, rule, payload, view_offset, decoded, other, main_vars, side_vars>>

\* get_exclusion_at_index on the rule: the index asked for, whether
\* *exclusion was written, and what was written there.
GetExclusionAtIndex(index) ==
    /\ rule # NullRule
    /\ LET res == lttng_event_rule_tracepoint_get_exclusion_at_index(rule, index)
       IN  call' = [op |-> "get_exclusion_at_index",
                    arg |-> [index |-> index, written |-> res.written,
                             exclusion |-> res.exclusion],
                    status |-> res.status]
    /\ UNCHANGED <<host, rule, payload, view_offset, decoded, other, main_vars, side_vars>>

NextRule ==
    \/ \E d \in Domains \cup {LTTNG_DOMAIN_NONE} : Create(d)
    \/ Destroy
    \/ \E p \in PatternArgs : SetPattern(p)
    \/ \E f \in FilterArgs : SetFilter(f)
    \/ \E l \in LogLevelRuleArgs : SetLogLevelRule(l)
    \/ \E e \in ExclusionArgs : AddExclusion(e)
    \/ \E zmalloc_fails \in BOOLEAN : GenerateExclusions(zmalloc_fails)
    \/ \E index \in 0..MaxExclusions : GetExclusionAtIndex(index)

SpecRule == InitRule /\ [][NextRule]_vars

(***************************************************************************)
(* Rules built through create and the setters, the inputs of SpecApply     *)
(* and SpecPair.                                                           *)
(***************************************************************************)
RECURSIVE AddExclusions(_, _)
AddExclusions(r, exclusions) ==
    IF exclusions = <<>> THEN r
    ELSE AddExclusions(
             lttng_event_rule_tracepoint_add_exclusion(r, Head(exclusions)).rule,
             Tail(exclusions))

BuildRule(domain_type, pattern, filter, llr, exclusions) ==
    LET r0 == lttng_event_rule_tracepoint_create(domain_type)
        r1 == lttng_event_rule_tracepoint_set_pattern(r0, pattern).rule
        r2 == IF filter = NULL THEN r1
              ELSE lttng_event_rule_tracepoint_set_filter(r1, filter).rule
        r3 == IF llr = NullLLR THEN r2
              ELSE lttng_event_rule_tracepoint_set_log_level_rule(r2, llr).rule
    IN  AddExclusions(r3, exclusions)

RECURSIVE SeqsUpTo(_, _)
SeqsUpTo(S, n) ==
    IF n = 0 THEN {<<>>}
    ELSE SeqsUpTo(S, n - 1)
         \cup {Append(q, x) : q \in {t \in SeqsUpTo(S, n - 1) : Len(t) = n - 1}, x \in S}

BuiltExclusions == SeqsUpTo({<<120>>, <<121>>}, MaxExclusions)

BuiltLogLevelRules ==
    {NullLLR}
    \cup {lttng_log_level_rule_exactly_create(l) : l \in {INT32_MIN, LTTNG_LOGLEVEL_DEBUG}}
    \cup {lttng_log_level_rule_at_least_as_severe_as_create(l) :
              l \in {INT32_MIN, LTTNG_LOGLEVEL_DEBUG}}

BuiltRules ==
    {BuildRule(d, p, f, l, e) :
        d \in Domains, p \in {<<42>>, <<97>>}, f \in {NULL, <<102>>},
        l \in BuiltLogLevelRules, e \in BuiltExclusions}

\* The same, and rules with an exclusion of the greatest accepted length.
ApplyRules ==
    BuiltRules
    \cup {BuildRule(LTTNG_DOMAIN_UST, <<97>>, f, NullLLR,
                     <<NameOfLen(LTTNG_SYMBOL_NAME_LEN - 1)>>) : f \in {NULL, <<102>>}}

(***************************************************************************)
(* SpecApply: a built rule is serialized into a payload, the payload is    *)
(* possibly altered on its way (one byte changed, or cut short), and a     *)
(* rule is created from it; or the rule's filter bytecode is generated.    *)
(***************************************************************************)
MaxTamperLen == 48

\* Bytes a payload may hold before the rule is serialized into it.
Prefixes == {<<>>, <<170>>}

InitApply ==
    /\ host \in Hosts
    /\ rule \in ApplyRules
    /\ call = NoCall
    /\ payload = <<>>
    /\ view_offset = 0
    /\ decoded = NoDecoded
    /\ other = NullRule
    /\ MainIdle
    /\ SideIdle

Serialize(prefix) ==
    /\ call.op = "none"
    /\ LET res == lttng_event_rule_serialize(rule, prefix)
       IN  /\ payload' = res.buffer
           /\ call' = [op |-> IF res.aborted THEN "serialize aborted"
                               ELSE "serialize",
                       arg |-> prefix, status |-> res.ret]
    /\ view_offset' = Len(prefix)
    /\ UNCHANGED <<host, rule, decoded, other, main_vars, side_vars>>

\* The peer sends a payload that differs from the serialized one in one byte.
TamperByte(pos, delta) ==
    /\ call.op = "serialize"
    /\ Len(payload) <= MaxTamperLen
    /\ pos \in (view_offset + 1)..Len(payload)
    /\ payload' = [payload EXCEPT ![pos] = (@ + delta) % 256]
    /\ call' = [op |-> "tamper", arg |-> pos, status |-> 0]
    /\ UNCHANGED <<host, rule, view_offset, decoded, other, main_vars, side_vars>>

\* The type tags a peer may send: every known type, and values on both
\* sides of them up to the ends of int8_t.
TypeTags == {-128, -1, 0, 1, 2, 3, 4, 5, 127}

\* The peer sends the payload under another type tag.
TamperType(type) ==
    /\ call.op = "serialize"
    /\ Int8Value(payload[view_offset + 1]) # type
    /\ payload' = [payload EXCEPT ![view_offset + 1] = Int8Byte(type)]
    /\ call' = [op |-> "tamper", arg |-> view_offset + 1, status |-> 0]
    /\ UNCHANGED <<host, rule, view_offset, decoded, other, main_vars, side_vars>>

\* The peer sends only the first n bytes.
Truncate(n) ==
    /\ call.op = "serialize"
    /\ Len(payload) <= MaxTamperLen
    /\ n \in view_offset..(Len(payload) - 1)
    /\ payload' = SubSeq(payload, 1, n)
    /\ call' = [op |-> "truncate", arg |-> n, status |-> 0]
    /\ UNCHANGED <<host, rule, view_offset, decoded, other, main_vars, side_vars>>

\* call.arg tells what the payload went through: "serialize" when intact.
CreateFromPayload ==
    /\ call.op \in {"serialize", "tamper", "truncate"}
    /\ call.status = 0
    /\ decoded' = lttng_event_rule_create_from_payload(
                      ViewData(payload,
                          lttng_buffer_view_from_view(payload, view_offset, -1)))
    /\ call' = [op |-> "create_from_payload", arg |-> call.op,
                status |-> IF decoded'.aborted THEN "abort"
                           ELSE IF decoded'.ret < 0 THEN "rejected" ELSE "created"]
    /\ UNCHANGED <<host, rule, payload, view_offset, other, main_vars, side_vars>>

GenerateFilterBytecode(compiler_ret) ==
    /\ call.op = "none"
    /\ LET res == lttng_event_rule_tracepoint_generate_filter_bytecode(rule, compiler_ret)
       IN  /\ rule' = res.rule
           /\ call' = [op |-> "generate_filter_bytecode", arg |-> rule,
                       status |-> res.ret_code]
    /\ UNCHANGED <<host, payload, view_offset, decoded, other, main_vars, side_vars>>

NextApply ==
    \/ \E prefix \in Prefixes : Serialize(prefix)
    \/ \E pos \in 1..MaxTamperLen, delta \in {1, 255} : TamperByte(pos, delta)
    \/ \E type \in TypeTags : TamperType(type)
    \/ \E n \in 0..MaxTamperLen : Truncate(n)
    \/ CreateFromPayload
    \/ \E compiler_ret \in {0, -1} : GenerateFilterBytecode(compiler_ret)

SpecApply == InitApply /\ [][NextApply]_vars

(***************************************************************************)
(* SpecPair: two built rules are compared and hashed; the filter bytecode  *)
(* of the first may have been generated before.                            *)
(***************************************************************************)
InitPair ==
    /\ host = LittleEndian64
    /\ rule \in BuiltRules
    /\ other \in BuiltRules
    /\ call = NoCall
    /\ payload = <<>>
    /\ view_offset = 0
    /\ decoded = NoDecoded
    /\ MainIdle
    /\ SideIdle

\* call.status: the result of is_equal; call.arg: the two hashes.
Compare ==
    /\ call.op # "compare"
    /\ call' = [op |-> "compare",
                arg |-> <<lttng_event_rule_hash(rule), lttng_event_rule_hash(other)>>,
                status |-> lttng_event_rule_is_equal(rule, other)]
    /\ UNCHANGED <<host, rule, payload, view_offset, decoded, other, main_vars, side_vars>>

NextPair ==
    \/ Compare
    \/ GenerateFilterBytecode(0)

SpecPair == InitPair /\ [][NextPair]_vars

(***************************************************************************)
(* Properties of the rule operations (SpecRule).                           *)
(***************************************************************************)
ExclusionsCount(r) == lttng_event_rule_tracepoint_get_exclusions_count(r).count

LevelValidFor(domain, level) ==
    domain = LTTNG_DOMAIN_UST
        => (LTTNG_LOGLEVEL_EMERG <= level /\ level <= LTTNG_LOGLEVEL_DEBUG)

C1_RoundTrip ==
    /\ call.op = "serialize" => call.status = 0
    /\ (call.op = "create_from_payload" /\ call.arg = "serialize")
        => /\ call.status = "created"
           /\ lttng_event_rule_is_equal(rule, decoded.rule)
           /\ ExclusionsCount(decoded.rule) = ExclusionsCount(rule)
           /\ \A i \in 0..(ExclusionsCount(rule) - 1) :
                  lttng_event_rule_tracepoint_get_exclusion_at_index(decoded.rule, i)
                      = lttng_event_rule_tracepoint_get_exclusion_at_index(rule, i)

\* The decimal text of the levels the built rules carry.
DecimalText(level) ==
    CASE level = LTTNG_LOGLEVEL_DEBUG -> <<49, 52>>                  \* "14"
      [] level = INT32_MIN ->                              \* "-2147483648"
             <<45, 50, 49, 52, 55, 52, 56, 51, 54, 52, 56>>

OperatorText(llr) ==
    IF llr.type = LTTNG_LOG_LEVEL_RULE_TYPE_EXACTLY THEN <<61, 61>> ELSE <<62, 61>>

\* int_loglevel op L
LoglevelText(llr) ==
    <<105, 110, 116, 95, 108, 111, 103, 108, 101, 118, 101, 108, 32>>
    \o OperatorText(llr) \o <<32>> \o DecimalText(llr.level)

\* logger_name == "p"
LoggerNameText(pattern) ==
    <<108, 111, 103, 103, 101, 114, 95, 110, 97, 109, 101, 32, 61, 61, 32, 34>>
    \o pattern \o <<34>>

\* An agent rule with a log level rule has had its filter generated.
AgentFilterGenerated ==
    /\ call.op = "generate_filter_bytecode"
    /\ rule.domain \in AgentDomains
    /\ rule.log_level_rule # NullLLR

TracepointBytes == SubSeq(payload, view_offset + 2, Len(payload))

\* A string of `len` bytes, terminator included, lies at offset off.
TerminatedAt(b, off, len) ==
    /\ len >= 1
    /\ len <= Len(b) - off
    /\ b[off + len] = 0
    /\ \A i \in (off + 1)..(off + len - 1) : b[i] # 0

\* The offset after `count` exclusions that start at off, -1 when one of
\* them does not fit the bytes or is not terminated at its length.
RECURSIVE ExclusionsEnd(_, _, _)
ExclusionsEnd(b, off, count) ==
    IF count = 0 THEN off
    ELSE IF SizeofUint32 > Len(b) - off THEN -1
    ELSE IF ~TerminatedAt(b, off + SizeofUint32, Uint32Field(b, off)) THEN -1
    ELSE ExclusionsEnd(b, off + SizeofUint32 + Uint32Field(b, off), count - 1)

\* Every length of the header agrees with the bytes that follow it, every
\* string ends at its declared length and the domain is a known one.
ConsistentPayload(b) ==
    /\ Len(b) >= TracepointCommSize
    /\ Int8Value(b[1]) \in Domains
    /\ TerminatedAt(b, TracepointCommSize, Uint32Field(b, OffPatternLen))
    /\ LET filter_offset == TracepointCommSize + Uint32Field(b, OffPatternLen)
           filter_expression_len == Uint32Field(b, OffFilterExpressionLen)
       IN  /\ filter_expression_len # 0
               => TerminatedAt(b, filter_offset, filter_expression_len)
           /\ Uint32Field(b, OffLogLevelRuleLen)
                  <= Len(b) - (filter_offset + filter_expression_len)
           /\ LET exclusions_offset ==
                      filter_offset + filter_expression_len
                      + Uint32Field(b, OffLogLevelRuleLen)
                  exclusions_end ==
                      ExclusionsEnd(b, exclusions_offset,
                          Uint32Field(b, OffExclusionsCount))
              IN  /\ exclusions_end # -1
                  /\ Uint32Field(b, OffExclusionsLen) =
                         exclusions_end - exclusions_offset

\* C8: create_from_payload rejects, with a negative value and no rule,
\* every payload in which a length of the header or of an exclusion
\* disagrees with the bytes that remain, a string is not terminated at its
\* declared length, or the domain is not a known one.  Stated as the claim
\* states it; the exclusions_len of the header is never looked at.
C8_RejectsInconsistentPayload ==
    (/\ call.op = "create_from_payload"
     /\ Len(payload) > view_offset
     /\ Int8Value(payload[view_offset + 1]) = LTTNG_EVENT_RULE_TYPE_TRACEPOINT
     /\ ~ConsistentPayload(TracepointBytes))
        => /\ call.status = "rejected"
           /\ decoded.ret < 0
           /\ decoded.rule = NullRule

(***************************************************************************)
(* set_option and set_options of lttng-sessiond (main.c).  config holds    *)
(* the fields of struct sessiond_config that set_option writes, plus       *)
(* opt_print_version and the config_path local of set_options.             *)
(***************************************************************************)
MaxOptions == 2
MaxArgLen == 2

EINVAL == 22
ENOMEM == 12
EVENT_NOTIFIER_ERROR_COUNTER_NUMBER_OF_BUCKET_MAX == 65535
DEFAULT_AGENT_TCP_PORT_RANGE_BEGIN == 5345
DEFAULT_AGENT_TCP_PORT_RANGE_END == 5354
DEFAULT_EVENT_NOTIFIER_ERROR_COUNT_MAP_SIZE == 4096

\* The value a string field of the configuration has after
\* sessiond_config_init.
DefaultString == <<100>>

\* The string fields of the configuration, by the long option that sets
\* each.
StringFieldOf ==
    [o \in {"client-sock", "apps-sock", "group", "kconsumerd-err-sock",
            "kconsumerd-cmd-sock", "ustconsumerd64-err-sock",
            "ustconsumerd64-cmd-sock", "ustconsumerd32-err-sock",
            "ustconsumerd32-cmd-sock", "consumerd32-path", "consumerd32-libdir",
            "consumerd64-path", "consumerd64-libdir", "pidfile", "load",
            "kmod-probes", "extra-kmod-probes"} |->
        CASE o = "client-sock" -> "client_unix_sock_path"
          [] o = "apps-sock" -> "apps_unix_sock_path"
          [] o = "group" -> "tracing_group_name"
          [] o = "kconsumerd-err-sock" -> "kconsumerd_err_unix_sock_path"
          [] o = "kconsumerd-cmd-sock" -> "kconsumerd_cmd_unix_sock_path"
          [] o = "ustconsumerd64-err-sock" -> "consumerd64_err_unix_sock_path"
          [] o = "ustconsumerd64-cmd-sock" -> "consumerd64_cmd_unix_sock_path"
          [] o = "ustconsumerd32-err-sock" -> "consumerd32_err_unix_sock_path"
          [] o = "ustconsumerd32-cmd-sock" -> "consumerd32_cmd_unix_sock_path"
          [] o = "consumerd32-path" -> "consumerd32_bin_path"
          [] o = "consumerd32-libdir" -> "consumerd32_lib_dir"
          [] o = "consumerd64-path" -> "consumerd64_bin_path"
          [] o = "consumerd64-libdir" -> "consumerd64_lib_dir"
          [] o = "pidfile" -> "pid_file_path"
          [] o = "load" -> "load_session_path"
          [] o = "kmod-probes" -> "kmod_probes_list"
          [] o = "extra-kmod-probes" -> "kmod_extra_probes_list"]

StringFields == {StringFieldOf[o] : o \in DOMAIN StringFieldOf}

OtherFields ==
    [daemonize |-> FALSE, background |-> FALSE, sig_parent |-> FALSE,
     no_kernel |-> FALSE, quiet |-> FALSE, verbose |-> 0, verbose_consumer |-> 0,
     agent_tcp_port |-> [begin |-> DEFAULT_AGENT_TCP_PORT_RANGE_BEGIN,
                         end |-> DEFAULT_AGENT_TCP_PORT_RANGE_END],
     event_notifier_error_counter_bucket |->
         DEFAULT_EVENT_NOTIFIER_ERROR_COUNT_MAP_SIZE,
     opt_print_version |-> 0, config_path |-> NULL]

\* The configuration after sessiond_config_init.
DefaultConfig ==
    [f \in StringFields \cup DOMAIN OtherFields |->
        IF f \in StringFields THEN DefaultString ELSE OtherFields[f]]

\* long_options: name, has_arg, val ("" for '\0').
Option(name, has_arg, val) == [name |-> name, has_arg |-> has_arg, val |-> val]

long_options ==
    << Option("client-sock", TRUE, "c"),
       Option("apps-sock", TRUE, "a"),
       Option("kconsumerd-cmd-sock", TRUE, ""),
       Option("kconsumerd-err-sock", TRUE, ""),
       Option("ustconsumerd32-cmd-sock", TRUE, ""),
       Option("ustconsumerd32-err-sock", TRUE, ""),
       Option("ustconsumerd64-cmd-sock", TRUE, ""),
       Option("ustconsumerd64-err-sock", TRUE, ""),
       Option("consumerd32-path", TRUE, ""),
       Option("consumerd32-libdir", TRUE, ""),
       Option("consumerd64-path", TRUE, ""),
       Option("consumerd64-libdir", TRUE, ""),
       Option("daemonize", FALSE, "d"),
       Option("background", FALSE, "b"),
       Option("sig-parent", FALSE, "S"),
       Option("help", FALSE, "h"),
       Option("group", TRUE, "g"),
       Option("version", FALSE, "V"),
       Option("quiet", FALSE, "q"),
       Option("verbose", FALSE, "v"),
       Option("verbose-consumer", FALSE, ""),
       Option("no-kernel", FALSE, ""),
       Option("pidfile", TRUE, "p"),
       Option("agent-tcp-port", TRUE, ""),
       Option("config", TRUE, "f"),
       Option("load", TRUE, "l"),
       Option("kmod-probes", TRUE, ""),
       Option("extra-kmod-probes", TRUE, ""),
       Option("event-notifier-error-number-of-bucket", TRUE, "") >>

config_ignore_options == {"help", "version", "config"}

\* NULL for an option name: a short option was given.
NullName == "(null)"

string_match(str1, str2) == str1 # NullName /\ str1 = str2

\* isdigit, and the value of a character as a digit in base `base`
\* (-1 when it is none).
isdigit(c) == c \in 48..57

DigitValue(c, base) ==
    LET v == CASE c \in 48..57 -> c - 48
               [] c \in 97..102 -> c - 97 + 10
               [] c \in 65..70 -> c - 65 + 10
               [] OTHER -> -1
    IN  IF v < base THEN v ELSE -1

\* The number denoted by the longest prefix of s, from position i, made of
\* digits of the base, on top of acc.  set_option compares the value with
\* 0 and with 65535 only, so any value above 65535 is kept as 65536; that
\* stands also for the ULONG_MAX strtoul returns, with errno = ERANGE, on
\* overflow.
RECURSIVE DigitsValue(_, _, _, _)
DigitsValue(s, i, base, acc) ==
    IF i > Len(s) \/ DigitValue(s[i], base) < 0 THEN acc
    ELSE LET v == acc * base + DigitValue(s[i], base)
         IN  DigitsValue(s, i + 1, base, IF v > 65535 THEN 65536 ELSE v)

\* strtoul(arg, NULL, 0) for a string that starts with a digit: a "0x" or
\* "0X" followed by a hexadecimal digit announces base 16, another leading
\* "0" base 8, anything else base 10.
strtoul(s) ==
    IF Len(s) >= 3 /\ s[1] = 48 /\ s[2] \in {120, 88} /\ DigitValue(s[3], 16) >= 0
    THEN DigitsValue(s, 3, 16, 0)
    ELSE IF s[1] = 48 THEN DigitsValue(s, 1, 8, 0)
    ELSE DigitsValue(s, 1, 10, 0)

\* The values config_parse_value may return for the value of an entry of
\* the configuration file: negative for a value it does not understand, 0
\* for a false one, the number for a numeric one, 1 for a true one.
ParsedValues == {-1, 0, 1, 5}

EmptyArg(arg) == arg = NULL \/ arg = <<>>

OptResult(ret, cf, exits) == [ret |-> ret, config |-> cf, exits |-> exits]

SetStringFieldOfAnyUser(cf, field, arg, is_setuid, enomem) ==
    IF EmptyArg(arg) THEN OptResult(-EINVAL, cf, FALSE)
    ELSE IF enomem THEN OptResult(-ENOMEM, [cf EXCEPT ![field] = NULL], FALSE)
    ELSE OptResult(0, [cf EXCEPT ![field] = arg], FALSE)

\* The branches of set_option that set a string field: the argument must be
\* there and not empty; a setuid or setgid binary refuses it with a warning;
\* strdup may fail.
SetStringField(cf, field, arg, is_setuid, enomem) ==
    IF EmptyArg(arg) THEN OptResult(-EINVAL, cf, FALSE)
    ELSE IF is_setuid THEN OptResult(0, cf, FALSE)
    ELSE IF enomem THEN OptResult(-ENOMEM, [cf EXCEPT ![field] = NULL], FALSE)
    ELSE OptResult(0, [cf EXCEPT ![field] = arg], FALSE)

\* The branches of set_option for agent-tcp-port and for
\* event-notifier-error-number-of-bucket, once the argument is to be parsed:
\* the value is refused (return -1) unless the argument starts with a digit
\* and 0 < v < max.
ParseNumberInclusive(arg, max) ==
    IF ~(Len(arg) > 0 /\ isdigit(arg[1])) THEN [ok |-> FALSE, v |-> 0]
    ELSE LET v == strtoul(arg)
         IN  IF v = 0 \/ v > max THEN [ok |-> FALSE, v |-> v]
             ELSE [ok |-> TRUE, v |-> v]

ParseNumber(arg, max) ==
    IF ~(Len(arg) > 0 /\ isdigit(arg[1])) THEN [ok |-> FALSE, v |-> 0]
    ELSE LET v == strtoul(arg)
         IN  IF v = 0 \/ v >= max THEN [ok |-> FALSE, v |-> v]
             ELSE [ok |-> TRUE, v |-> v]

Clamp03(v) == IF v < 0 THEN 0 ELSE IF v <= 3 THEN v ELSE 3

\* set_option(opt, arg, optname) on the configuration cf.  opt is the short
\* option character ("" for '\0'), optname the long name or NullName;
\* is_setuid is what lttng_is_setuid_setgid() returns, enomem whether strdup
\* fails and parsed what config_parse_value(arg) returns.  The result holds
\* the return value, the configuration afterwards and whether the process
\* has exited instead of returning.  The branch of the bucket option does
\* not test arg: like getopt and config_entry_handler, the callers here
\* never pass NULL for an option that takes an argument.
set_option(cf, opt, arg, optname, is_setuid, enomem, parsed) ==
    LET Is(name, short) == string_match(optname, name) \/ (short # "" /\ opt = short)
        Str(name) == SetStringField(cf, StringFieldOf[name], arg, is_setuid, enomem)
    IN
    IF Is("client-sock", "c") THEN Str("client-sock")
    ELSE IF Is("apps-sock", "a") THEN Str("apps-sock")
    ELSE IF Is("daemonize", "d") THEN OptResult(0, [cf EXCEPT !.daemonize = TRUE], FALSE)
    ELSE IF Is("background", "b") THEN OptResult(0, [cf EXCEPT !.background = TRUE], FALSE)
    ELSE IF Is("group", "g") THEN Str("group")
    ELSE IF Is("help", "h") THEN OptResult(0, cf, TRUE)
    ELSE IF Is("version", "V") THEN OptResult(0, [cf EXCEPT !.opt_print_version = 1], FALSE)
    ELSE IF Is("sig-parent", "S") THEN OptResult(0, [cf EXCEPT !.sig_parent = TRUE], FALSE)
    ELSE IF Is("kconsumerd-err-sock", "") THEN Str("kconsumerd-err-sock")
    ELSE IF Is("kconsumerd-cmd-sock", "") THEN Str("kconsumerd-cmd-sock")
    ELSE IF Is("ustconsumerd64-err-sock", "") THEN Str("ustconsumerd64-err-sock")
    ELSE IF Is("ustconsumerd64-cmd-sock", "") THEN Str("ustconsumerd64-cmd-sock")
    ELSE IF Is("ustconsumerd32-err-sock", "") THEN Str("ustconsumerd32-err-sock")
    ELSE IF Is("ustconsumerd32-cmd-sock", "") THEN Str("ustconsumerd32-cmd-sock")
    ELSE IF Is("no-kernel", "") THEN OptResult(0, [cf EXCEPT !.no_kernel = TRUE], FALSE)
    ELSE IF Is("quiet", "q") THEN OptResult(0, [cf EXCEPT !.quiet = TRUE], FALSE)
    ELSE IF Is("verbose", "v") THEN
        OptResult(0, [cf EXCEPT !.verbose =
                         Clamp03(IF arg # NULL THEN parsed ELSE cf.verbose + 1)], FALSE)
    ELSE IF Is("verbose-consumer", "") THEN
        OptResult(0, [cf EXCEPT !.verbose_consumer =
                         IF arg # NULL THEN parsed ELSE cf.verbose_consumer + 1], FALSE)
    ELSE IF Is("consumerd32-path", "") THEN Str("consumerd32-path")
    ELSE IF Is("consumerd32-libdir", "") THEN Str("consumerd32-libdir")
    ELSE IF Is("consumerd64-path", "") THEN Str("consumerd64-path")
    ELSE IF Is("consumerd64-libdir", "") THEN Str("consumerd64-libdir")
    ELSE IF Is("pidfile", "p") THEN Str("pidfile")
    ELSE IF Is("agent-tcp-port", "") THEN
        IF EmptyArg(arg) THEN OptResult(-EINVAL, cf, FALSE)
        ELSE IF is_setuid THEN OptResult(0, cf, FALSE)
        ELSE LET n == ParseNumber(arg, 65535)
             IN  IF ~n.ok THEN OptResult(-1, cf, FALSE)
                 ELSE OptResult(0, [cf EXCEPT !.agent_tcp_port =
                                       [begin |-> n.v, end |-> n.v]], FALSE)
    ELSE IF Is("load", "l") THEN Str("load")
    ELSE IF Is("kmod-probes", "") THEN Str("kmod-probes")
    ELSE IF Is("extra-kmod-probes", "") THEN Str("extra-kmod-probes")
    ELSE IF Is("event-notifier-error-number-of-bucket", "") THEN
        LET n == ParseNumber(arg, EVENT_NOTIFIER_ERROR_COUNTER_NUMBER_OF_BUCKET_MAX)
        IN  IF ~n.ok THEN OptResult(-1, cf, FALSE)
            ELSE OptResult(0, [cf EXCEPT !.event_notifier_error_counter_bucket = n.v],
                           FALSE)
    ELSE IF Is("config", "f") THEN OptResult(0, cf, FALSE)
    ELSE OptResult(-1, cf, FALSE)

\* The arguments given to the options: strings of at most MaxArgLen
\* characters over "0", "1", "9", "x" and "-", and strings around the
\* bounds of the numeric options in the three bases of strtoul.
ArgChars == {48, 49, 57, 120, 45}

BoundaryArgs ==
    { <<54, 53, 53, 51, 52>>,             \* "65534"
      <<54, 53, 53, 51, 53>>,             \* "65535"
      <<54, 53, 53, 51, 54>>,             \* "65536"
      <<48, 120, 102, 102, 102, 101>>,    \* "0xfffe"
      <<48, 120, 102, 102, 102, 102>>,    \* "0xffff"
      <<48, 49, 55, 55, 55, 55, 54>>,     \* "0177776"
      <<48, 49, 55, 55, 55, 55, 55>>,     \* "0177777"
      <<48, 120, 49>>,                    \* "0x1"
      <<49, 50, 97, 98>>,                 \* "12ab"
      <<57, 57, 57, 57, 57, 57, 57, 57, 57, 57, 57, 57>> }

NumberArgs == SeqsUpTo(ArgChars, MaxArgLen) \cup BoundaryArgs

PathArgs == {<<>>, <<47, 112>>}

NumberOptions == {"agent-tcp-port", "event-notifier-error-number-of-bucket"}

ArgsOf(name) == IF name \in NumberOptions THEN NumberArgs ELSE PathArgs

OptionNames == {long_options[i].name : i \in DOMAIN long_options}

\* Whether strdup may fail matters to the options that copy their argument
\* only, and what config_parse_value returns to those without argument.
MayFail(name) == IF name \in DOMAIN StringFieldOf THEN BOOLEAN ELSE {FALSE}

ParsedFor(name) ==
    IF \E i \in DOMAIN long_options : long_options[i].name = name /\ ~long_options[i].has_arg
    THEN ParsedValues ELSE {0}

NoOption ==
    [origin |-> "none", optname |-> NullName, opt |-> "", arg |-> NULL,
     ret |-> 0, before |-> DefaultConfig]

InitOptions ==
    /\ config = DefaultConfig
    /\ setuid \in BOOLEAN
    /\ opt_call = [phase |-> "scan", n |-> 0, last |-> NoOption]
    /\ RuleIdle
    /\ MainIdle
    /\ AcctIdle
    /\ RefIdle
    /\ ErrIdle
    /\ ListIdle

\* The phase set_options is in after a call that returned ret.
AfterCall(phase, res) ==
    IF res.exits THEN "exited" ELSE IF res.ret < 0 THEN "done" ELSE phase

\* The first loop of set_options meets -f or --config: the path is kept
\* unless the binary is setuid or setgid; utils_expand_path may fail.
ScanConfigOption(arg, expands) ==
    /\ opt_call.phase = "scan"
    /\ config' = IF setuid THEN config
                 ELSE [config EXCEPT !.config_path = IF expands THEN arg ELSE NULL]
    /\ opt_call' = [opt_call EXCEPT
                       !.last = [origin |-> "scan", optname |-> "config", opt |-> "f",
                                 arg |-> arg, ret |-> 0, before |-> config]]
    /\ UNCHANGED <<rule_vars, main_vars, err_vars, list_vars, acct_vars, ref_vars, setuid>>

\* The first loop of set_options meets an option getopt_long does not know.
ScanUnknownOption ==
    /\ opt_call.phase = "scan"
    /\ opt_call' = [opt_call EXCEPT
                       !.phase = "done",
                       !.last = [origin |-> "scan", optname |-> NullName, opt |-> "?",
                                 arg |-> NULL, ret |-> -EINVAL, before |-> config]]
    /\ UNCHANGED <<rule_vars, main_vars, err_vars, list_vars, acct_vars, ref_vars, setuid, config>>

\* config_entry_handler on an entry of the configuration file.
config_entry_handler(cf, name, value, is_setuid, enomem, parsed) ==
    IF name = NullName \/ value = NULL THEN OptResult(-EINVAL, cf, FALSE)
    ELSE IF name \in config_ignore_options THEN OptResult(0, cf, FALSE)
    ELSE IF name \notin OptionNames THEN OptResult(0, cf, FALSE)
    ELSE LET i == CHOOSE j \in DOMAIN long_options :
                      /\ long_options[j].name = name
                      /\ \A k \in 1..(j - 1) : long_options[k].name # name
         IN  IF ~long_options[i].has_arg /\ parsed <= 0 THEN OptResult(parsed, cf, FALSE)
             ELSE set_option(cf, long_options[i].val, value, name, is_setuid, enomem,
                             parsed)

\* config_get_section_entries hands one entry of the configuration file to
\* config_entry_handler.
ConfigEntry(name, value, enomem, parsed) ==
    /\ opt_call.phase \in {"scan", "file"}
    /\ opt_call.n < MaxOptions
    /\ LET res == config_entry_handler(config, name, value, setuid, enomem, parsed)
       IN  /\ config' = res.config
           /\ opt_call' = [phase |-> IF res.ret # 0 THEN "done" ELSE "file",
                           n |-> opt_call.n + 1,
                           last |-> [origin |-> "file", optname |-> name, opt |-> "",
                                     arg |-> value, ret |-> res.ret, before |-> config]]
    /\ UNCHANGED <<rule_vars, main_vars, err_vars, list_vars, acct_vars, ref_vars, setuid>>

\* The second loop of set_options hands one option of the command line to
\* set_option: a short option comes without its long name, an option
\* without argument with a NULL argument.
CommandLineOption(i, short, arg, enomem) ==
    /\ opt_call.phase \in {"scan", "file", "cmdline"}
    /\ opt_call.n < MaxOptions
    /\ short => long_options[i].val # ""
    /\ arg = NULL <=> ~long_options[i].has_arg
    /\ LET optname == IF short THEN NullName ELSE long_options[i].name
           res == set_option(config, long_options[i].val, arg, optname, setuid, enomem, 0)
       IN  /\ config' = res.config
           /\ opt_call' = [phase |-> AfterCall("cmdline", res),
                           n |-> opt_call.n + 1,
                           last |-> [origin |-> "cmdline", optname |-> long_options[i].name,
                                     opt |-> IF short THEN long_options[i].val ELSE "",
                                     arg |-> arg, ret |-> res.ret, before |-> config]]
    /\ UNCHANGED <<rule_vars, main_vars, err_vars, list_vars, acct_vars, ref_vars, setuid>>

\* getopt_long returns -1: set_options returns the last return value.
OptionsEnd ==
    /\ opt_call.phase \in {"scan", "file", "cmdline"}
    /\ opt_call' = [opt_call EXCEPT !.phase = "done"]
    /\ UNCHANGED <<rule_vars, main_vars, err_vars, list_vars, acct_vars, ref_vars, setuid, config>>

NextOptions ==
    \/ \E arg \in PathArgs, expands \in BOOLEAN : ScanConfigOption(arg, expands)
    \/ ScanUnknownOption
    \/ \E name \in OptionNames \cup {"bogus", NullName} :
           \E value \in ArgsOf(name) \cup {NULL}, enomem \in MayFail(name),
              parsed \in ParsedFor(name) :
               ConfigEntry(name, value, enomem, parsed)
    \/ \E i \in DOMAIN long_options, short \in BOOLEAN :
           \E arg \in ArgsOf(long_options[i].name) \cup {NULL},
              enomem \in MayFail(long_options[i].name) :
               CommandLineOption(i, short, arg, enomem)
    \/ OptionsEnd

SpecOptions == InitOptions /\ [][NextOptions]_vars

(***************************************************************************)
(* The event-notifier error accounting                                     *)
(* (event-notifier-error-accounting.h).  accounting holds the pool of      *)
(* nb_bucket error-counter indices and the table giving the index of each  *)
(* registered trigger; acct_call is the last operation and its result.     *)
(***************************************************************************)
MaxBuckets == 3
MaxAcctTriggers == 4

AcctTriggers == 1..MaxAcctTriggers

NoIndex == -1

NoAcctCall == [op |-> "none", trigger |-> 0, status |-> "OK", index |-> NoIndex,
               in_use |-> 0]

\* The indices of the pool no trigger holds.
FreeIndices(acc) == (0..(acc.nb_bucket - 1)) \ acc.allocated

index_release_leak(allocated, index) == allocated

\* An index goes back to the pool.
index_release(allocated, index) == allocated \ {index}

InitAccounting ==
    /\ accounting = [state |-> "none", nb_bucket |-> 0, allocated |-> {},
                     indices |-> [t \in AcctTriggers |-> NoIndex]]
    /\ acct_call = NoAcctCall
    /\ RuleIdle
    /\ MainIdle
    /\ OptIdle
    /\ RefIdle
    /\ ErrIdle
    /\ ListIdle

\* event_notifier_error_accounting_init(nb_bucket): main calls it once,
\* with the number of buckets of the configuration.
event_notifier_error_accounting_init(nb_bucket) ==
    /\ accounting.state = "none"
    /\ accounting' = [state |-> "init", nb_bucket |-> nb_bucket, allocated |-> {},
                      indices |-> [t \in AcctTriggers |-> NoIndex]]
    /\ acct_call' = [NoAcctCall EXCEPT !.op = "init"]
    /\ UNCHANGED <<rule_vars, main_vars, err_vars, list_vars, opt_vars, ref_vars>>

\* event_notifier_error_accounting_register_event_notifier(trigger, &index)
\* for a trigger that holds no index: it takes a free index of the pool, or
\* fails with NO_INDEX_AVAILABLE when there is none.
event_notifier_error_accounting_register_event_notifier(trigger) ==
    /\ accounting.state = "init"
    /\ accounting.indices[trigger] = NoIndex
    /\ IF FreeIndices(accounting) = {}
       THEN /\ acct_call' = [op |-> "register", trigger |-> trigger,
                             status |-> "NO_INDEX_AVAILABLE", index |-> NoIndex,
                             in_use |-> Cardinality(accounting.allocated)]
            /\ UNCHANGED accounting
       ELSE \E index \in FreeIndices(accounting) :
                /\ accounting' = [accounting EXCEPT
                                     !.allocated = @ \cup {index},
                                     !.indices[trigger] = index]
                /\ acct_call' = [op |-> "register", trigger |-> trigger,
                                 status |-> "OK", index |-> index,
                                 in_use |-> Cardinality(accounting.allocated)]
    /\ UNCHANGED <<rule_vars, main_vars, err_vars, list_vars, opt_vars, ref_vars>>

\* event_notifier_error_accounting_unregister_event_notifier(trigger): the
\* index of the trigger goes back to the pool; a trigger that holds none is
\* left alone.
event_notifier_error_accounting_unregister_event_notifier(trigger) ==
    /\ accounting.state = "init"
    /\ LET index == accounting.indices[trigger]
       IN  /\ accounting' =
                  IF index = NoIndex THEN accounting
                  ELSE [accounting EXCEPT
                           !.allocated = index_release(@, index),
                           !.indices[trigger] = NoIndex]
           /\ acct_call' = [op |-> "unregister", trigger |-> trigger,
                            status |-> IF index = NoIndex THEN "NOT_FOUND" ELSE "OK",
                            index |-> index,
                            in_use |-> Cardinality(accounting.allocated)]
    /\ UNCHANGED <<rule_vars, main_vars, err_vars, list_vars, opt_vars, ref_vars>>

\* event_notifier_error_accounting_fini(): main calls it once the triggers
\* are unregistered.
event_notifier_error_accounting_fini ==
    /\ accounting.state = "init"
    /\ \A t \in AcctTriggers : accounting.indices[t] = NoIndex
    /\ accounting' = [accounting EXCEPT !.state = "fini"]
    /\ acct_call' = [NoAcctCall EXCEPT !.op = "fini"]
    /\ UNCHANGED <<rule_vars, main_vars, err_vars, list_vars, opt_vars, ref_vars>>

NextAccounting ==
    \/ \E nb_bucket \in 1..MaxBuckets : event_notifier_error_accounting_init(nb_bucket)
    \/ \E t \in AcctTriggers : event_notifier_error_accounting_register_event_notifier(t)
    \/ \E t \in AcctTriggers : event_notifier_error_accounting_unregister_event_notifier(t)
    \/ event_notifier_error_accounting_fini

SpecAccounting == InitAccounting /\ [][NextAccounting]_vars

(***************************************************************************)
(* The reference count of an event rule (event-rule.c).  Threads that have *)
(* a pointer to one rule call lttng_event_rule_get and                     *)
(* lttng_event_rule_put on it.  ref holds the count, how often the destroy *)
(* callback ran, whether the rule has been freed, whether the count has    *)
(* reached zero, and whether freed memory has been accessed; holders gives *)
(* for each thread its position, the references it holds, the count it     *)
(* read, and the result of its last get with whether that get began after  *)
(* the count had reached zero.                                             *)
(***************************************************************************)
MaxHolders == 2
MaxRefs == 2
MaxDestroys == 2

Holders == 1..MaxHolders

RefIsNeverZero(old) == FALSE

\* urcu_ref_get_unless_zero gives no reference when it read a count of 0.
RefIsZero(old) == old = 0

\* What a read of the count gives: the count, or anything once the rule
\* has been freed.
ReadRefcount == IF ref.freed THEN {0, 1} ELSE {ref.refcount}

\* lttng_event_rule_create then lttng_event_rule_init: urcu_ref_init sets
\* the count to 1, the reference of the creator (thread 1).
InitRef ==
    /\ ref = [refcount |-> 1, destroyed |-> 0, freed |-> FALSE, zero |-> FALSE,
              uaf |-> FALSE]
    /\ holders = [h \in Holders |->
                     [pc |-> "idle", owns |-> IF h = 1 THEN 1 ELSE 0, old |-> 0,
                      got |-> "none", late |-> FALSE]]
    /\ RuleIdle
    /\ MainIdle
    /\ OptIdle
    /\ AcctIdle
    /\ ErrIdle
    /\ ListIdle

\* lttng_event_rule_get, first step: urcu_ref_get_unless_zero reads the
\* count.
GetRead(h) ==
    /\ holders[h].pc = "idle"
    /\ holders[h].owns < MaxRefs
    /\ \E old \in ReadRefcount :
           holders' = [holders EXCEPT ![h].pc = "get", ![h].old = old,
                                      ![h].late = ref.zero]
    /\ ref' = [ref EXCEPT !.uaf = @ \/ ref.freed]
    /\ UNCHANGED <<rule_vars, main_vars, err_vars, list_vars, opt_vars, acct_vars>>

\* lttng_event_rule_get, second step: urcu_ref_get_unless_zero returns
\* false for a count of 0, else tries to replace the count it read by that
\* count plus one, and reads again when the count has changed meanwhile.
GetCmpxchg(h) ==
    /\ holders[h].pc = "get"
    /\ IF RefIsZero(holders[h].old)
       THEN /\ holders' = [holders EXCEPT ![h].pc = "idle", ![h].got = "false"]
            /\ UNCHANGED ref
       ELSE \E res \in ReadRefcount :
                IF res = holders[h].old
                THEN /\ ref' = [ref EXCEPT !.refcount = holders[h].old + 1,
                                           !.uaf = @ \/ ref.freed]
                     /\ holders' = [holders EXCEPT ![h].pc = "idle",
                                                   ![h].got = "true",
                                                   ![h].owns = @ + 1]
                ELSE /\ ref' = [ref EXCEPT !.uaf = @ \/ ref.freed]
                     /\ holders' = [holders EXCEPT ![h].old = res]
    /\ UNCHANGED <<rule_vars, main_vars, err_vars, list_vars, opt_vars, acct_vars>>

\* lttng_event_rule_put, first step, by a thread that holds a reference:
\* assert(event_rule->ref.refcount).
PutAssert(h) ==
    /\ holders[h].pc = "idle"
    /\ holders[h].owns > 0
    /\ \E count \in ReadRefcount :
           holders' = [holders EXCEPT ![h].pc = IF count = 0 THEN "aborted" ELSE "put"]
    /\ ref' = [ref EXCEPT !.uaf = @ \/ ref.freed]
    /\ UNCHANGED <<rule_vars, main_vars, err_vars, list_vars, opt_vars, acct_vars>>

\* lttng_event_rule_put, second step: urcu_ref_put takes one from the
\* count and calls lttng_event_rule_release when the result is 0.
PutSub(h) ==
    /\ holders[h].pc = "put"
    /\ LET res == ref.refcount - 1
       IN  /\ ref' = [ref EXCEPT !.refcount = res, !.zero = @ \/ res = 0,
                                 !.uaf = @ \/ ref.freed]
           /\ holders' = [holders EXCEPT
                             ![h].owns = @ - 1,
                             ![h].pc = IF res = 0 THEN "release"
                                       ELSE IF res < 0 THEN "aborted" ELSE "idle"]
    /\ UNCHANGED <<rule_vars, main_vars, err_vars, list_vars, opt_vars, acct_vars>>

\* lttng_event_rule_release: the destroy callback of the rule
\* (lttng_event_rule_tracepoint_destroy) frees it.  A release of a rule
\* already freed can only follow an access to freed memory; those are
\* followed up to MaxDestroys runs of the callback.
lttng_event_rule_release(h) ==
    /\ holders[h].pc = "release"
    /\ ref.destroyed < MaxDestroys
    /\ ref' = [ref EXCEPT !.destroyed = @ + 1, !.freed = TRUE]
    /\ holders' = [holders EXCEPT ![h].pc = "idle"]
    /\ UNCHANGED <<rule_vars, main_vars, err_vars, list_vars, opt_vars, acct_vars>>

NextRef ==
    \/ \E h \in Holders : GetRead(h)
    \/ \E h \in Holders : GetCmpxchg(h)
    \/ \E h \in Holders : PutAssert(h)
    \/ \E h \in Holders : PutSub(h)
    \/ \E h \in Holders : lttng_event_rule_release(h)

SpecRef == InitRef /\ [][NextRef]_vars

(***************************************************************************)
(* The error strings (common/error.c).                                     *)
(***************************************************************************)
\* How far past the ends of the table the calls of the model reach.
MaxBeyond == 5

\* The first value of enum lttng_error_code (lttng/lttng-error.h).
LTTNG_OK == 10

\* The designated initialisers of error_string_array: one per enumerator,
\* LTTNG_OK first and LTTNG_ERR_NR last.
ErrorStrings == 154

\* The enumerators follow one another from LTTNG_OK on, each with its entry
\* in the table, so that the last one, LTTNG_ERR_NR, is the table's last.
LTTNG_ERR_NR == LTTNG_OK + ErrorStrings - 1

ERROR_INDEX(code) == code - LTTNG_OK

\* The table: the entry of a code holds that code's message.
error_string_array ==
    [i \in 0..ERROR_INDEX(LTTNG_ERR_NR) |->
        [of |-> LTTNG_OK + i,
         text |-> CASE i = ERROR_INDEX(LTTNG_OK) -> "Success"
                    [] i = ERROR_INDEX(LTTNG_OK + 1) -> "Unknown error"
                    [] i = ERROR_INDEX(LTTNG_OK + 2) -> "Undefined command"
                    [] i = ERROR_INDEX(LTTNG_ERR_NR) -> "Unknown error code"
                    [] OTHER -> "message of the code"]]

\* What a read outside the table gives.
OutOfBounds == [of |-> -1, text |-> "out of bounds"]

\* code = -code on an int32_t.  Negating INT32_MIN overflows: the build
\* either wraps to INT32_MIN or folds the two comparisons on the
\* mathematical value 2^31, which is above every code (INT32_MAX stands
\* for it).
Negations(code) ==
    IF code = INT32_MIN THEN {INT32_MIN, INT32_MAX} ELSE {-code}

error_get_str_below_only(code, negated) ==
    LET clamped == IF negated < LTTNG_OK THEN LTTNG_ERR_NR ELSE negated
        index == ERROR_INDEX(clamped)
    IN [index |-> index,
        str |-> IF index \in DOMAIN error_string_array
                THEN error_string_array[index] ELSE OutOfBounds]

error_get_str(code, negated) ==
    LET clamped == IF negated < LTTNG_OK \/ negated > LTTNG_ERR_NR
                   THEN LTTNG_ERR_NR ELSE negated
        index == ERROR_INDEX(clamped)
    IN [index |-> index,
        str |-> IF index \in DOMAIN error_string_array
                THEN error_string_array[index] ELSE OutOfBounds]

\* The codes asked for: every code of the table, negated as callers pass
\* them, the values on both sides of it, and the ends of int32_t.
ErrorCodes ==
    ((-(LTTNG_ERR_NR + MaxBeyond))..MaxBeyond)
        \cup {INT32_MIN, INT32_MIN + 1, INT32_MAX - 1, INT32_MAX,
              LTTNG_OK, LTTNG_ERR_NR}

InitError ==
    /\ RuleIdle
    /\ MainIdle
    /\ OptIdle
    /\ AcctIdle
    /\ RefIdle
    /\ ListIdle
    /\ err_call = <<>>

ErrorGetStr(code, negated) ==
    /\ err_call' = [code |-> code, negated |-> negated]
                       @@ error_get_str(code, negated)
    /\ UNCHANGED <<rule_vars, main_vars, opt_vars, acct_vars, ref_vars, list_vars>>

NextError ==
    \E code \in ErrorCodes : \E negated \in Negations(code) :
        ErrorGetStr(code, negated)

SpecError == InitError /\ [][NextError]_vars

(***************************************************************************)
(* destroy_all_sessions_and_wait (main.c), one step per call it makes.     *)
(* The session list, the reference counts and the commands are those of    *)
(* session.c and cmd.c: session_get fails on a session whose count is      *)
(* zero; cmd_destroy_session marks the session destroyed and drops the     *)
(* reference the list holds; the put of the last reference takes the       *)
(* session off the list; a put needs the list lock.                        *)
(***************************************************************************)
MaxListed == 3

Listed == 1..MaxListed

\* A session: on the list or not, marked destroyed or not, its reference
\* count, the references other threads hold, its lock, and the commands
\* destroy_all_sessions_and_wait issued on it.
ListedSession(on_list, destroyed, others) ==
    [on_list |-> on_list, destroyed |-> destroyed,
     refcount |-> others + (IF on_list /\ ~destroyed THEN 1 ELSE 0),
     others |-> others, locked |-> FALSE, ops |-> <<>>]

\* What the list may hold when the daemon shuts down: no session, a session
\* only the list refers to, one another thread uses too, one whose
\* destruction was initiated and that another thread still uses, and one
\* whose count fell to zero and that is about to leave the list.
SessionsAtShutdown ==
    {ListedSession(FALSE, FALSE, 0), ListedSession(TRUE, FALSE, 0),
     ListedSession(TRUE, FALSE, 1), ListedSession(TRUE, TRUE, 1),
     [ListedSession(TRUE, TRUE, 0) EXCEPT !.destroyed = FALSE],
     ListedSession(TRUE, TRUE, 0)}

\* cds_list_for_each_entry_safe: the session of the list after `s`, or
\* MaxListed + 1 at the end of the list.
NextListed(list, s) ==
    IF \E n \in Listed : n > s /\ list[n].on_list
    THEN CHOOSE n \in Listed :
             /\ n > s /\ list[n].on_list
             /\ \A m \in Listed : (m > s /\ list[m].on_list) => n <= m
    ELSE MaxListed + 1

\* urcu_ref_get_unless_zero.
session_get(session) == session.refcount > 0

\* A put: the count goes down by one, and the session leaves the list with
\* its last reference.
session_put(session) ==
    [session EXCEPT !.refcount = @ - 1,
                    !.on_list = IF session.refcount = 1 THEN FALSE ELSE @]

InitDestroy ==
    /\ RuleIdle
    /\ MainIdle
    /\ OptIdle
    /\ AcctIdle
    /\ RefIdle
    /\ ErrIdle
    /\ \E sessions0 \in [Listed -> SessionsAtShutdown] :
           session_list = [pc |-> "session_lock_list", cursor |-> 0,
                           list_locked |-> FALSE, taken |-> {},
                           sessions |-> sessions0, entry |-> sessions0]

ListStep(next) ==
    /\ session_list' = next
    /\ UNCHANGED <<rule_vars, main_vars, opt_vars, acct_vars, ref_vars, err_vars>>

LeaveLoop(sl) ==
    [sl EXCEPT !.cursor = MaxListed + 1, !.pc = "session_unlock_list"]

\* The loop goes to the session after the current one.
Continue(sl) ==
    LET n == NextListed(sl.sessions, sl.cursor)
    IN  [sl EXCEPT !.cursor = n,
                   !.pc = IF n > MaxListed THEN "session_unlock_list"
                          ELSE "session_get"]

\* session_lock_list(): the list is what the loop will go through.
SessionLockList ==
    /\ session_list.pc = "session_lock_list"
    /\ ListStep(Continue([session_list EXCEPT !.list_locked = TRUE,
                                              !.entry = session_list.sessions]))

\* if (!session_get(session)) continue;
SessionGet ==
    /\ session_list.pc = "session_get"
    /\ LET s == session_list.cursor
       IN  IF session_get(session_list.sessions[s])
           THEN ListStep([session_list EXCEPT
                              !.sessions[s].refcount = @ + 1,
                              !.taken = @ \cup {s},
                              !.pc = "session_lock"])
           ELSE ListStep(Continue(session_list))

\* session_lock(session); if (session->destroyed) goto unlock_session;
SessionLock ==
    /\ session_list.pc = "session_lock"
    /\ LET s == session_list.cursor
       IN  ListStep([session_list EXCEPT
                         !.sessions[s].locked = TRUE,
                         !.pc = IF session_list.sessions[s].destroyed
                                THEN "session_unlock" ELSE "cmd_stop_trace"])

\* (void) cmd_stop_trace(session);
CmdStopTrace ==
    /\ session_list.pc = "cmd_stop_trace"
    /\ LET s == session_list.cursor
       IN  ListStep([session_list EXCEPT
                         !.sessions[s].ops = Append(@, "stop_trace"),
                         !.pc = "cmd_destroy_session"])

\* (void) cmd_destroy_session(session, notification_thread_handle, NULL);
CmdDestroy ==
    /\ session_list.pc = "cmd_destroy_session"
    /\ LET s == session_list.cursor
       IN  ListStep([session_list EXCEPT
                         !.sessions[s].ops = Append(@, "destroy_session"),
                         !.sessions[s].destroyed = TRUE,
                         !.sessions[s].refcount = @ - 1,
                         !.pc = "session_unlock"])

\* unlock_session: session_unlock(session);
SessionUnlock ==
    /\ session_list.pc = "session_unlock"
    /\ LET s == session_list.cursor
       IN  ListStep([session_list EXCEPT !.sessions[s].locked = FALSE,
                                         !.pc = "session_put"])

\* session_put(session); and on to the next session.
SessionPut ==
    /\ session_list.pc = "session_put"
    /\ LET s == session_list.cursor
       IN  ListStep(Continue([session_list EXCEPT
                                  !.sessions[s] = session_put(@),
                                  !.taken = @ \ {s}]))

\* session_unlock_list();
SessionUnlockList ==
    /\ session_list.pc = "session_unlock_list"
    /\ ListStep([session_list EXCEPT !.list_locked = FALSE,
                                     !.pc = "session_list_wait_empty"])

\* session_list_wait_empty() returns when the list holds no session.
WaitEmptyReturns ==
    /\ session_list.pc = "session_list_wait_empty"
    /\ \A s \in Listed : ~session_list.sessions[s].on_list
    /\ ListStep([session_list EXCEPT !.pc = "returned"])

\* Another thread puts the reference it holds, under the list lock.
OtherPut(s) ==
    /\ session_list # <<>>
    /\ ~session_list.list_locked
    /\ session_list.sessions[s].others > 0
    /\ ListStep([session_list EXCEPT
                     !.sessions[s] = [session_put(@) EXCEPT !.others = @ - 1]])

\* The thread that dropped the last reference takes the session off the list.
OtherRelease(s) ==
    /\ session_list # <<>>
    /\ ~session_list.list_locked
    /\ session_list.sessions[s].on_list
    /\ session_list.sessions[s].refcount = 0
    /\ ListStep([session_list EXCEPT !.sessions[s].on_list = FALSE])

NextDestroy ==
    \/ SessionLockList
    \/ SessionGet
    \/ SessionLock
    \/ CmdStopTrace
    \/ CmdDestroy
    \/ SessionUnlock
    \/ SessionPut
    \/ SessionUnlockList
    \/ WaitEmptyReturns
    \/ \E s \in Listed : OtherPut(s)
    \/ \E s \in Listed : OtherRelease(s)

SpecDestroy == InitDestroy /\ [][NextDestroy]_vars

(***************************************************************************)
(* Properties of equality and hash (SpecPair).                             *)
(***************************************************************************)
\* C2: two rules that lttng_event_rule_is_equal finds equal have the same
\* lttng_event_rule_hash, and hashing a rule again while it is not modified
\* gives the same value.
C2_EqualRulesHashEqual ==
    call.op = "compare"
        => /\ call.status = TRUE => call.arg[1] = call.arg[2]
           /\ lttng_event_rule_hash(rule) = call.arg[1]
           /\ lttng_event_rule_hash(other) = call.arg[2]

C2_Witness ==
    /\ call.op = "compare"
    /\ call.status = TRUE
    /\ rule # other
    /\ rule.log_level_rule # NullLLR
    /\ Len(rule.exclusions) = 2

(***************************************************************************)
(* main() of lttng-sessiond.  pc names the statement main is at.           *)
(*                                                                         *)
(* InitSteps lists, in program order, the initialization steps that main   *)
(* performs before it waits on the quit pipe:                              *)
(*   when        the condition under which main performs the step          *)
(*   fail        the label main jumps to when the step fails ("none" for   *)
(*               a step whose result is not looked at)                     *)
(*   sets_retval whether main sets retval = -1 before the jump             *)
(*   makes       the handle, pipe or file the step creates ("" for none)   *)
(*   thread      the worker thread the step launches ("" for none)         *)
(***************************************************************************)
Step(step, when, fail, sets_retval, makes, thread) ==
    [step |-> step, when |-> when, fail |-> fail, sets_retval |-> sets_retval,
     makes |-> makes, thread |-> thread]

InitSteps ==
    << Step("set_signal_handler", "always", "exit_set_signal_handler", TRUE, "signal_handler", ""),
       Step("timer_signal_init", "always", "exit_set_signal_handler", TRUE, "", ""),
       Step("sessiond_config_init", "always", "exit_set_signal_handler", TRUE, "config", ""),
       Step("set_options", "always", "exit_options", TRUE, "", ""),
       Step("sessiond_config_resolve_paths", "always", "exit_options", FALSE, "", ""),
       Step("opt_print_version", "always", "none", FALSE, "", ""),
       Step("create_lttng_rundir", "always", "exit_options", TRUE, "rundir", ""),
       Step("check_existing_daemon", "always", "exit_options", TRUE, "lockfile", ""),
       Step("lttng_daemonize", "daemonize", "exit_options", TRUE, "", ""),
       Step("launch_run_as_worker", "always", "exit_create_run_as_worker_cleanup", FALSE,
            "run_as_worker", ""),
       Step("health_app_create", "always", "stop_threads", TRUE, "health_sessiond", ""),
       Step("launch_ht_cleanup_thread", "always", "stop_threads", TRUE,
            "ht_cleanup_thread", "ht_cleanup"),
       Step("sessiond_init_thread_quit_pipe", "always", "stop_threads", TRUE,
            "thread_quit_pipe", ""),
       Step("kernel_channel_monitor_pipe", "root", "stop_threads", TRUE,
            "kernel_channel_monitor_pipe", ""),
       Step("kernel_release_writefd", "root", "stop_threads", TRUE, "", ""),
       Step("ust32_channel_monitor_pipe", "always", "stop_threads", TRUE,
            "ust32_channel_monitor_pipe", ""),
       Step("ust32_release_writefd", "always", "stop_threads", TRUE, "", ""),
       Step("rotation_thread_timer_queue_create", "always", "stop_threads", TRUE,
            "rotation_timer_queue", ""),
       Step("ust64_channel_monitor_pipe", "always", "stop_threads", TRUE,
            "ust64_channel_monitor_pipe", ""),
       Step("ust64_release_writefd", "always", "stop_threads", TRUE, "", ""),
       Step("ust_app_ht_alloc", "always", "stop_threads", TRUE, "ust_app_ht", ""),
       Step("event_notifier_error_accounting_init", "always", "none", FALSE,
            "error_accounting", ""),
       Step("agent_app_ht_alloc", "always", "stop_threads", TRUE, "agent_app_ht", ""),
       Step("agent_by_event_notifier_domain_ht_create", "always", "stop_threads", TRUE,
            "agent_by_event_notifier_domain_ht", ""),
       Step("set_consumer_sockets_kconsumer", "root", "stop_threads", TRUE, "", ""),
       Step("init_kernel_tracer", "root_kernel", "none", FALSE, "kernel_tracer", ""),
       Step("set_consumer_sockets_ustconsumer64", "always", "stop_threads", TRUE, "", ""),
       Step("set_consumer_sockets_ustconsumer32", "always", "stop_threads", TRUE, "", ""),
       Step("kernel_poll_pipe", "root_kernel", "stop_threads", TRUE, "kernel_poll_pipe", ""),
       Step("apps_cmd_pipe", "always", "stop_threads", TRUE, "apps_cmd_pipe", ""),
       Step("apps_cmd_notify_pipe", "always", "stop_threads", TRUE,
            "apps_cmd_notify_pipe", ""),
       Step("write_pidfile", "always", "stop_threads", TRUE, "pidfile", ""),
       Step("launch_health_management_thread", "always", "stop_threads", TRUE, "", "health"),
       Step("notification_thread_handle_create", "always", "stop_threads", TRUE,
            "notification_thread_handle", ""),
       Step("launch_notification_thread", "always", "stop_threads", TRUE,
            "notification_thread", "notification"),
       Step("launch_timer_thread", "always", "stop_threads", TRUE, "", "timer"),
       Step("rotation_thread_handle_create", "always", "stop_threads", TRUE,
            "rotation_thread_handle", ""),
       Step("launch_rotation_thread", "always", "stop_threads", TRUE, "", "rotation"),
       Step("launch_client_thread", "always", "stop_threads", TRUE,
            "client_thread", "client"),
       Step("set_permissions", "root", "stop_threads", TRUE, "", ""),
       Step("launch_ust_dispatch_thread", "always", "stop_threads", TRUE, "", "ust_dispatch"),
       Step("launch_application_registration_thread", "always", "stop_threads", TRUE,
            "register_apps_thread", "register_apps"),
       Step("launch_application_management_thread", "always", "stop_threads", TRUE,
            "", "application_management"),
       Step("launch_application_notification_thread", "always", "stop_threads", TRUE,
            "", "application_notification"),
       Step("launch_agent_management_thread", "always", "stop_threads", TRUE,
            "", "agent_management"),
       Step("launch_kernel_management_thread", "root_kernel", "stop_threads", TRUE,
            "", "kernel_management"),
       Step("notification_thread_command_add_tracer_event_source", "root_kernel",
            "stop_threads", TRUE, "", ""),
       Step("config_load_session", "always", "stop_threads", TRUE, "", ""),
       Step("sessiond_signal_parents", "always", "none", FALSE, "", "") >>

InitStepNames == {InitSteps[i].step : i \in 1..Len(InitSteps)}

StepIndex(name) == CHOOSE i \in 1..Len(InitSteps) : InitSteps[i].step = name

\* The statement after an initialization step that did not jump.
AfterStep(name) ==
    IF StepIndex(name) = Len(InitSteps) THEN "sessiond_wait_for_quit_pipe"
    ELSE InitSteps[StepIndex(name) + 1].step

Applies(when) ==
    CASE when = "always" -> TRUE
      [] when = "root" -> cfg.is_root
      [] when = "root_kernel" -> cfg.is_root /\ ~cfg.no_kernel
      [] when = "daemonize" -> cfg.daemonize

\* sessiond_notify_quit_pipe: a write to the quit pipe, if it is there.
sessiond_notify_quit_pipe(pipe) == IF pipe = "open" THEN "notified" ELSE pipe

(***************************************************************************)
(* The runtime directory.  A path is the sequence of its components; files *)
(* holds the paths that exist.                                             *)
(***************************************************************************)
RunDir == <<"rundir">>
LockFile == <<"rundir", "lock_file">>
PidFile == <<"rundir", "pid_file">>
AgentPortFile == <<"rundir", "agent_port_file">>
ClientSock == <<"rundir", "client_unix_sock">>
AppsSock == <<"rundir", "apps_unix_sock">>
ConsumerDir(c) == <<"rundir", c>>
ErrSock(c) == <<"rundir", c, "err_unix_sock">>
CmdSock(c) == <<"rundir", c, "cmd_unix_sock">>

\* The entries of directory d.
Entries(fs, d) ==
    {f \in fs : Len(f) = Len(d) + 1 /\ SubSeq(f, 1, Len(d)) = d}

mkdir(fs, d) == fs \cup {d}

\* unlink and remove of a file: the path no longer exists.
unlink(fs, f) == fs \ {f}

\* rmdir fails on a directory that is not empty.
rmdir(fs, d) == IF Entries(fs, d) = {} THEN fs \ {d} ELSE fs

\* What an initialization step that succeeds creates under the runtime
\* directory.
CreatedBy(step) ==
    CASE step = "create_lttng_rundir" -> {RunDir}
      [] step = "check_existing_daemon" -> {LockFile}
      [] step = "set_consumer_sockets_kconsumer" ->
             {ConsumerDir("kconsumer"), ErrSock("kconsumer")}
      [] step = "set_consumer_sockets_ustconsumer64" ->
             {ConsumerDir("ustconsumer64"), ErrSock("ustconsumer64")}
      [] step = "set_consumer_sockets_ustconsumer32" ->
             {ConsumerDir("ustconsumer32"), ErrSock("ustconsumer32")}
      [] step = "write_pidfile" -> {PidFile}
      [] step = "launch_client_thread" -> {ClientSock}
      [] step = "launch_application_registration_thread" -> {AppsSock}
      [] step = "launch_agent_management_thread" -> {AgentPortFile}
      [] OTHER -> {}

\* What an initialization step that fails may have created before it
\* failed: set_consumer_sockets may fail after its mkdir.
PartlyCreatedBy(step) ==
    {{}} \cup {{d} : d \in {f \in CreatedBy(step) :
                                  \E c \in ConsumerTypes : f = ConsumerDir(c)}}

\* sessiond_cleanup: the removals, in program order.
RemoveConsumerFiles(fs, c) == rmdir(unlink(fs, ErrSock(c)), ConsumerDir(c))

sessiond_cleanup_files(fs) ==
    RemoveConsumerFiles(
        RemoveConsumerFiles(
            RemoveConsumerFiles(unlink(unlink(fs, PidFile), AgentPortFile),
                                "kconsumer"),
            "ustconsumer32"),
        "ustconsumer64")

\* wait_consumer: waitpid() on a consumer whose pid is set, then pid = 0.
wait_consumer(state) == IF state = "exited" THEN "waited" ELSE state

\* first_instance: whether another session daemon runs on the same runtime
\* directory: "none", "alive" (it answers on the client socket) or
\* "holds_lock" (it does not answer yet and holds the lock file).
Configs ==
    [is_root : BOOLEAN, no_kernel : BOOLEAN, daemonize : BOOLEAN,
     print_version : BOOLEAN, first_instance : {"none"}]

SecondConfigs ==
    [is_root : BOOLEAN, no_kernel : BOOLEAN, daemonize : BOOLEAN,
     print_version : BOOLEAN, first_instance : {"alive", "holds_lock"}]

\* check_existing_daemon: lttng_session_daemon_alive() answers true, or
\* create_lockfile() fails on the lock another process holds.
check_existing_daemon(first_instance) ==
    IF first_instance = "alive" THEN "EEXIST"
    ELSE IF first_instance = "holds_lock" THEN "EEXIST"
    ELSE "may succeed"

\* sessiond_cleanup_lock_file without the test of lockfile_fd.
sessiond_cleanup_lock_file_always(fs, acquired) == unlink(fs, LockFile)

\* sessiond_cleanup_lock_file: if (lockfile_fd >= 0) remove(lock file).
sessiond_cleanup_lock_file(fs, acquired) ==
    IF acquired THEN unlink(fs, LockFile) ELSE fs

\* What a first instance that runs keeps under the runtime directory:
\* its lock, pid and agent port files, its sockets, and the directory and
\* error socket of each consumer, with the command socket of the consumers
\* it spawned.
FirstInstanceFiles(spawned) ==
    {RunDir, LockFile, PidFile, AgentPortFile, ClientSock, AppsSock}
    \cup {ConsumerDir(c) : c \in ConsumerTypes}
    \cup {ErrSock(c) : c \in ConsumerTypes}
    \cup {CmdSock(c) : c \in spawned}

InitMain ==
    /\ host = LittleEndian64
    /\ rule = NullRule
    /\ call = NoCall
    /\ payload = <<>>
    /\ view_offset = 0
    /\ decoded = NoDecoded
    /\ other = NullRule
    /\ pc = InitSteps[1].step
    /\ retval = 0
    /\ exit_status = "none"
    /\ cfg \in Configs
    /\ made = {}
    /\ running = {}
    /\ failed_step = "none"
    /\ log = <<>>
    /\ quit_pipe = "closed"
    /\ sessions = [i \in 1..MaxSessions |-> "absent"]
    /\ triggers = {}
    /\ consumers = [c \in ConsumerTypes |-> "none"]
    /\ files = {}
    /\ recv_child_signal = 0
    /\ SideIdle

\* An initialization step other than the two below.  ok: whether the call
\* succeeds.
InitStep(ok) ==
    /\ pc \in InitStepNames \ {"opt_print_version", "config_load_session"}
    /\ (pc = "check_existing_daemon"
           /\ check_existing_daemon(cfg.first_instance) = "EEXIST") => ~ok
    /\ LET st == InitSteps[StepIndex(pc)]
       IN  IF ~Applies(st.when)
           THEN /\ pc' = AfterStep(pc)
                /\ UNCHANGED <<retval, made, running, failed_step, quit_pipe, files>>
           ELSE IF ok \/ st.fail = "none"
           THEN /\ pc' = AfterStep(pc)
                /\ files' = files \cup CreatedBy(st.step)
                /\ made' = made \cup (IF st.makes = "" THEN {} ELSE {st.makes})
                /\ running' = running \cup (IF st.thread = "" THEN {} ELSE {st.thread})
                /\ quit_pipe' = IF st.step = "sessiond_init_thread_quit_pipe"
                                THEN "open" ELSE quit_pipe
                /\ UNCHANGED <<retval, failed_step>>
           ELSE /\ pc' = st.fail
                /\ \E part \in PartlyCreatedBy(st.step) : files' = files \cup part
                /\ retval' = IF st.sets_retval THEN -1 ELSE retval
                /\ failed_step' = st.step
                \* Only this failure calls stop_threads() before the jump.
                /\ quit_pipe' = IF st.step = "rotation_thread_handle_create"
                                THEN sessiond_notify_quit_pipe(quit_pipe)
                                ELSE quit_pipe
                /\ UNCHANGED <<made, running>>
    /\ UNCHANGED <<rule_vars, side_vars, consumers, recv_child_signal, exit_status,
                   cfg, log, sessions, triggers>>

\* if (opt_print_version) { print_version(); retval = 0; goto exit_options; }
PrintVersion ==
    /\ pc = "opt_print_version"
    /\ IF cfg.print_version
       THEN pc' = "exit_options" /\ retval' = 0
       ELSE pc' = AfterStep(pc) /\ UNCHANGED retval
    /\ UNCHANGED <<rule_vars, side_vars, env_vars, exit_status, cfg, made, running, failed_step, log,
                   quit_pipe, sessions, triggers>>

\* config_load_session: the sessions of `loaded` are created before the
\* call returns, with success or not.
ConfigLoadSession(loaded, ok) ==
    /\ pc = "config_load_session"
    /\ \A i \in loaded : sessions[i] = "absent"
    /\ sessions' = [i \in 1..MaxSessions |->
                        IF i \in loaded THEN "active" ELSE sessions[i]]
    /\ IF ok
       THEN pc' = AfterStep(pc) /\ UNCHANGED <<retval, failed_step>>
       ELSE pc' = "stop_threads" /\ retval' = -1 /\ failed_step' = pc
    /\ UNCHANGED <<rule_vars, side_vars, env_vars, exit_status, cfg, made, running, log, quit_pipe,
                   triggers>>

\* A variant of the step below that does not wait for the notification.
WaitForQuitPipeReturnsAtOnce ==
    /\ pc = "sessiond_wait_for_quit_pipe"
    /\ pc' = "stop_threads"
    /\ UNCHANGED <<rule_vars, side_vars, env_vars, retval, exit_status, cfg, made,
                   running, failed_step, log, quit_pipe, sessions, triggers>>

\* sessiond_wait_for_quit_pipe(-1) returns once the quit pipe is written to.
WaitForQuitPipe ==
    /\ pc = "sessiond_wait_for_quit_pipe"
    /\ quit_pipe = "notified"
    /\ pc' = "stop_threads"
    /\ UNCHANGED <<rule_vars, side_vars, env_vars, retval, exit_status, cfg, made, running, failed_step,
                   log, quit_pipe, sessions, triggers>>

\* lttng_thread_shutdown: the thread is told to stop and is joined.
lttng_thread_shutdown(threads, thread) == threads \ {thread}

\* A variant of the step below that leaves the client thread running.
KeepClientThread ==
    /\ pc = "stop_threads"
    /\ pc' = "destroy_all_sessions_and_wait"
    /\ UNCHANGED <<rule_vars, side_vars, env_vars, retval, exit_status, cfg, made, running, failed_step,
                   log, quit_pipe, sessions, triggers>>

\* stop_threads: if (client_thread) { lttng_thread_shutdown(client_thread); ... }
ShutdownClientThread ==
    /\ pc = "stop_threads"
    /\ pc' = "destroy_all_sessions_and_wait"
    /\ IF "client_thread" \in made
       THEN /\ running' = lttng_thread_shutdown(running, "client")
            /\ files' = unlink(files, ClientSock)
            /\ log' = Append(log, "client_thread_shutdown")
       ELSE UNCHANGED <<running, log, files>>
    /\ UNCHANGED <<rule_vars, side_vars, consumers, recv_child_signal, retval, exit_status, cfg, made, failed_step, quit_pipe,
                   sessions, triggers>>

\* destroy_all_sessions_and_wait, up to the wait: the destruction of every
\* session of the list is initiated.
DestroyAllSessions ==
    /\ pc = "destroy_all_sessions_and_wait"
    /\ pc' = "session_list_wait_empty"
    /\ sessions' = [i \in 1..MaxSessions |->
                        IF sessions[i] = "active" THEN "destroyed" ELSE sessions[i]]
    /\ log' = Append(log, "destroy_all_sessions")
    /\ UNCHANGED <<rule_vars, side_vars, env_vars, retval, exit_status, cfg, made, running, failed_step,
                   quit_pipe, triggers>>

\* session_list_wait_empty returns once the session list is empty.
SessionListWaitEmpty ==
    /\ pc = "session_list_wait_empty"
    /\ \A i \in 1..MaxSessions : sessions[i] = "absent"
    /\ pc' = "unregister_all_triggers"
    /\ log' = Append(log, "session_list_empty")
    /\ UNCHANGED <<rule_vars, side_vars, env_vars, retval, exit_status, cfg, made, running, failed_step,
                   quit_pipe, sessions, triggers>>

\* unregister_all_triggers: the triggers are listed and unregistered one by
\* one; a failure to unregister one is logged and the loop goes on.  kept:
\* the triggers whose unregistration failed.
UnregisterAllTriggers(kept) ==
    /\ pc = "unregister_all_triggers"
    /\ pc' = "register_apps_thread_shutdown"
    /\ kept \subseteq triggers
    /\ triggers' = kept
    /\ log' = Append(log, "unregister_all_triggers")
    /\ UNCHANGED <<rule_vars, side_vars, env_vars, retval, exit_status, cfg, made, running, failed_step,
                   quit_pipe, sessions>>

(***************************************************************************)
(* The rest of the teardown, in program order:                             *)
(*   when      the condition under which main performs the step            *)
(*   needs     the handle main tests before the step ("" when untested)    *)
(*   releases  what the step destroys, closes or removes                   *)
(*   stops     the threads the step shuts down                             *)
(***************************************************************************)
\* A variant of the record below whose hash-table cleanup step stops no
\* thread.
TeardownKeepsHtCleanup(step, when, needs, releases, stops) ==
    [step |-> step, when |-> when, needs |-> needs, releases |-> releases,
     stops |-> IF step = "ht_cleanup_thread_shutdown" THEN {} ELSE stops]

Teardown(step, when, needs, releases, stops) ==
    [step |-> step, when |-> when, needs |-> needs, releases |-> releases,
     stops |-> stops]

\* A variant of the set below in which the health management thread is not
\* on the orphan list.
OrphansWithoutHealth ==
    {"timer", "rotation", "ust_dispatch", "application_management",
     "application_notification", "agent_management", "kernel_management"}

\* The threads main keeps no reference to.
Orphans ==
    {"health", "timer", "rotation", "ust_dispatch", "application_management",
     "application_notification", "agent_management", "kernel_management"}

TeardownSteps ==
    << Teardown("register_apps_thread_shutdown", "always", "register_apps_thread",
                {"register_apps_thread"}, {"register_apps"}),
       Teardown("lttng_thread_list_shutdown_orphans", "always", "", {}, Orphans),
       Teardown("rcu_barrier_1", "always", "", {}, {}),
       Teardown("sessiond_cleanup", "always", "",
                {"thread_quit_pipe", "apps_cmd_pipe", "apps_cmd_notify_pipe",
                 "kernel_poll_pipe", "pidfile", "agent_by_event_notifier_domain_ht",
                 "agent_app_ht", "ust_app_ht"}, {}),
       Teardown("wait_consumer", "always", "", {"kernel_tracer"}, {}),
       Teardown("rcu_barrier_2", "always", "", {}, {}),
       Teardown("notification_thread_shutdown", "always", "notification_thread",
                {"notification_thread"}, {"notification"}),
       Teardown("event_notifier_error_accounting_fini", "always", "",
                {"error_accounting"}, {}),
       Teardown("modprobe_remove_lttng_all", "root_kernel", "", {}, {}),
       Teardown("rcu_barrier_3", "always", "", {}, {}),
       Teardown("ht_cleanup_thread_shutdown", "always", "ht_cleanup_thread",
                {"ht_cleanup_thread"}, {"ht_cleanup"}),
       Teardown("rotation_thread_handle_destroy", "always", "rotation_thread_handle",
                {"rotation_thread_handle"}, {}),
       Teardown("rotation_thread_timer_queue_destroy", "always", "",
                {"rotation_timer_queue"}, {}),
       Teardown("notification_thread_handle_destroy", "always",
                "notification_thread_handle", {"notification_thread_handle"}, {}),
       Teardown("lttng_pipe_destroy", "always", "",
                {"ust32_channel_monitor_pipe", "ust64_channel_monitor_pipe",
                 "kernel_channel_monitor_pipe"}, {}),
       Teardown("health_app_destroy", "always", "health_sessiond",
                {"health_sessiond"}, {}) >>

TeardownStepNames == {TeardownSteps[i].step : i \in 1..Len(TeardownSteps)}

TeardownIndex(name) ==
    CHOOSE i \in 1..Len(TeardownSteps) : TeardownSteps[i].step = name

\* A variant of the operator below that goes from the second barrier
\* straight to the error accounting teardown.
AfterTeardownSkipsNotification(name) ==
    IF name = "rcu_barrier_2" THEN "event_notifier_error_accounting_fini"
    ELSE IF TeardownIndex(name) = Len(TeardownSteps) THEN "exit_options"
    ELSE TeardownSteps[TeardownIndex(name) + 1].step

AfterTeardown(name) ==
    IF TeardownIndex(name) = Len(TeardownSteps) THEN "exit_options"
    ELSE TeardownSteps[TeardownIndex(name) + 1].step

\* sessiond_cleanup is two steps of the table: its removals, and from
\* wait_consumer on, where it blocks in waitpid() until the consumers that
\* were spawned have exited.
TeardownStep ==
    /\ pc \in TeardownStepNames
    /\ pc = "wait_consumer" => \A c \in ConsumerTypes : consumers[c] # "running"
    /\ pc' = AfterTeardown(pc)
    /\ LET st == TeardownSteps[TeardownIndex(pc)]
       IN  IF Applies(st.when) /\ (st.needs = "" \/ st.needs \in made)
           THEN /\ made' = made \ st.releases
                /\ running' = running \ st.stops
                /\ log' = Append(log, st.step)
                \* sessiond_cleanup closes the thread quit pipe.
                /\ quit_pipe' = IF st.step = "sessiond_cleanup" THEN "closed"
                                ELSE quit_pipe
                /\ files' = CASE st.step = "sessiond_cleanup" ->
                                     sessiond_cleanup_files(files)
                               [] st.step = "register_apps_thread_shutdown" ->
                                     unlink(files, AppsSock)
                               [] OTHER -> files
                /\ consumers' = IF st.step = "wait_consumer"
                                THEN [c \in ConsumerTypes |->
                                          wait_consumer(consumers[c])]
                                ELSE consumers
           ELSE UNCHANGED <<made, running, log, quit_pipe, files, consumers>>
    /\ UNCHANGED <<rule_vars, side_vars, recv_child_signal, retval, exit_status, cfg,
                   failed_step, sessions, triggers>>

\* exit_create_run_as_worker_cleanup: exit_options:
\*     sessiond_cleanup_lock_file(); sessiond_cleanup_options();
ExitOptions ==
    /\ pc \in {"exit_options", "exit_create_run_as_worker_cleanup"}
    /\ pc' = "exit_set_signal_handler"
    /\ made' = made \ {"lockfile", "config", "run_as_worker"}
    /\ files' = sessiond_cleanup_lock_file(files, "lockfile" \in made)
    /\ UNCHANGED <<rule_vars, side_vars, consumers, recv_child_signal, retval, exit_status, cfg, running, failed_step, log,
                   quit_pipe, sessions, triggers>>

\* exit_set_signal_handler: if (!retval) exit(EXIT_SUCCESS); else exit(EXIT_FAILURE);
Exit ==
    /\ pc = "exit_set_signal_handler"
    /\ pc' = "exited"
    /\ exit_status' = IF retval = 0 THEN "EXIT_SUCCESS" ELSE "EXIT_FAILURE"
    /\ UNCHANGED <<rule_vars, side_vars, env_vars, retval, cfg, made, running, failed_step, log,
                   quit_pipe, sessions, triggers>>

\* The signals set_signal_handler sets a disposition for.
Signals == {"SIGINT", "SIGTERM", "SIGUSR1", "SIGPIPE"}

\* Delivery of a signal once set_signal_handler has run.  sighandler calls
\* stop_threads() on SIGINT and SIGTERM and stores 1 in recv_child_signal
\* on SIGUSR1; SIGPIPE is ignored (SIG_IGN).
Signal(sig) ==
    /\ "signal_handler" \in made
    /\ pc # "exited"
    /\ quit_pipe' = IF sig \in {"SIGINT", "SIGTERM"}
                    THEN sessiond_notify_quit_pipe(quit_pipe) ELSE quit_pipe
    /\ recv_child_signal' = IF sig = "SIGUSR1" THEN 1 ELSE recv_child_signal
    /\ UNCHANGED <<rule_vars, side_vars, consumers, files, pc, retval, exit_status, cfg, made, running,
                   failed_step, log, sessions, triggers>>

\* The client thread sees the quit pipe written to and returns.
ClientThreadQuits ==
    /\ "client" \in running
    /\ quit_pipe = "notified"
    /\ running' = running \ {"client"}
    /\ files' = unlink(files, ClientSock)
    /\ UNCHANGED <<rule_vars, side_vars, consumers, recv_child_signal, pc, retval, exit_status, cfg, made, failed_step, log,
                   quit_pipe, sessions, triggers>>

\* Commands served by the client thread.
CmdCreateSession(i) ==
    /\ "client" \in running
    /\ sessions[i] = "absent"
    /\ sessions' = [sessions EXCEPT ![i] = "active"]
    /\ UNCHANGED <<rule_vars, side_vars, env_vars, pc, retval, exit_status, cfg, made, running,
                   failed_step, log, quit_pipe, triggers>>

CmdDestroySession(i) ==
    /\ "client" \in running
    /\ sessions[i] = "active"
    /\ sessions' = [sessions EXCEPT ![i] = "destroyed"]
    /\ UNCHANGED <<rule_vars, side_vars, env_vars, pc, retval, exit_status, cfg, made, running,
                   failed_step, log, quit_pipe, triggers>>

CmdRegisterTrigger(t) ==
    /\ "client" \in running
    /\ t \notin triggers
    /\ triggers' = triggers \cup {t}
    /\ UNCHANGED <<rule_vars, side_vars, env_vars, pc, retval, exit_status, cfg, made, running,
                   failed_step, log, quit_pipe, sessions>>

CmdUnregisterTrigger(t) ==
    /\ "client" \in running
    /\ t \in triggers
    /\ triggers' = triggers \ {t}
    /\ UNCHANGED <<rule_vars, side_vars, env_vars, pc, retval, exit_status, cfg, made, running,
                   failed_step, log, quit_pipe, sessions>>

\* The last reference to a destroyed session is put: it leaves the list.
SessionReleased(i) ==
    /\ sessions[i] = "destroyed"
    /\ sessions' = [sessions EXCEPT ![i] = "absent"]
    /\ UNCHANGED <<rule_vars, side_vars, env_vars, pc, retval, exit_status, cfg, made, running,
                   failed_step, log, quit_pipe, triggers>>

\* A command served by the client thread on a session spawns a consumer
\* daemon, which binds its command socket in its directory.  The kernel
\* consumer is spawned for a kernel session only.
CmdSpawnConsumer(c) ==
    /\ "client" \in running
    /\ \E i \in 1..MaxSessions : sessions[i] = "active"
    /\ consumers[c] = "none"
    /\ ErrSock(c) \in files
    /\ c = "kconsumer" => cfg.is_root /\ ~cfg.no_kernel
    /\ consumers' = [consumers EXCEPT ![c] = "running"]
    /\ files' = files \cup {CmdSock(c)}
    /\ UNCHANGED <<rule_vars, side_vars, recv_child_signal, pc, retval, exit_status,
                   cfg, made, running, failed_step, log, quit_pipe, sessions,
                   triggers>>

\* A consumer daemon exits; it unlinks its command socket on its way out.
ConsumerExits(c) ==
    /\ consumers[c] = "running"
    /\ consumers' = [consumers EXCEPT ![c] = "exited"]
    /\ files' = unlink(files, CmdSock(c))
    /\ UNCHANGED <<rule_vars, side_vars, recv_child_signal, pc, retval, exit_status,
                   cfg, made, running, failed_step, log, quit_pipe, sessions,
                   triggers>>

NextMain ==
    \/ \E ok \in BOOLEAN : InitStep(ok)
    \/ PrintVersion
    \/ \E loaded \in SUBSET (1..MaxSessions), ok \in BOOLEAN :
           ConfigLoadSession(loaded, ok)
    \/ WaitForQuitPipe
    \/ ShutdownClientThread
    \/ DestroyAllSessions
    \/ SessionListWaitEmpty
    \/ \E kept \in SUBSET (1..MaxTriggers) : UnregisterAllTriggers(kept)
    \/ TeardownStep
    \/ ExitOptions
    \/ Exit
    \/ \E sig \in Signals : Signal(sig)
    \/ ClientThreadQuits
    \/ \E i \in 1..MaxSessions : CmdCreateSession(i)
    \/ \E i \in 1..MaxSessions : CmdDestroySession(i)
    \/ \E t \in 1..MaxTriggers : CmdRegisterTrigger(t)
    \/ \E t \in 1..MaxTriggers : CmdUnregisterTrigger(t)
    \/ \E i \in 1..MaxSessions : SessionReleased(i)
    \/ \E c \in ConsumerTypes : CmdSpawnConsumer(c)
    \/ \E c \in ConsumerTypes : ConsumerExits(c)

SpecMain == InitMain /\ [][NextMain]_vars

(***************************************************************************)
(* SpecSecond: a session daemon is started while another one runs on the   *)
(* same runtime directory.  Its main takes the steps of NextMain that come *)
(* before and after check_existing_daemon.                                 *)
(***************************************************************************)
InitSecond ==
    /\ host = LittleEndian64
    /\ rule = NullRule
    /\ call = NoCall
    /\ payload = <<>>
    /\ view_offset = 0
    /\ decoded = NoDecoded
    /\ other = NullRule
    /\ pc = InitSteps[1].step
    /\ retval = 0
    /\ exit_status = "none"
    /\ cfg \in SecondConfigs
    /\ made = {}
    /\ running = {}
    /\ failed_step = "none"
    /\ log = <<>>
    /\ quit_pipe = "closed"
    /\ sessions = [i \in 1..MaxSessions |-> "absent"]
    /\ triggers = {}
    /\ consumers = [c \in ConsumerTypes |-> "none"]
    /\ \E spawned \in SUBSET ConsumerTypes : files = FirstInstanceFiles(spawned)
    /\ recv_child_signal = 0
    /\ SideIdle

NextSecond ==
    \/ \E ok \in BOOLEAN : InitStep(ok)
    \/ PrintVersion
    \/ ExitOptions
    \/ Exit
    \/ \E sig \in Signals : Signal(sig)

SpecSecond == InitSecond /\ [][NextSecond]_vars

\* The same start under every step of main.
SpecSecondOfMain == InitSecond /\ [][NextMain]_vars

\* The steps main takes once it waits on the quit pipe.
MainTeardown ==
    \/ WaitForQuitPipe
    \/ ShutdownClientThread
    \/ DestroyAllSessions
    \/ SessionListWaitEmpty
    \/ \E kept \in SUBSET (1..MaxTriggers) : UnregisterAllTriggers(kept)
    \/ TeardownStep
    \/ ExitOptions
    \/ Exit

\* Fair scheduling: main runs when it can, the references to a destroyed
\* session are put, and a consumer daemon terminates.
SpecMainLive ==
    /\ InitMain
    /\ [][NextMain]_vars
    /\ WF_vars(MainTeardown)
    /\ \A i \in 1..MaxSessions : WF_vars(SessionReleased(i))
    /\ \A c \in ConsumerTypes : WF_vars(ConsumerExits(c))

(***************************************************************************)
(* Properties of main() (SpecMain).                                        *)
(***************************************************************************)
\* C9: the daemon exits with status 0 only when no initialization step
\* failed; the failure of any initialization step of main leads to a
\* non-zero exit status.  Stated as the claim states it; it does not hold
\* when sessiond_config_resolve_paths or launch_run_as_worker fails.
C9_ExitStatus ==
    (pc = "exited" /\ failed_step # "none") => exit_status = "EXIT_FAILURE"

\* main is at destroy_all_sessions_and_wait, or past it.
SessionTeardownBegun ==
    \/ pc = "destroy_all_sessions_and_wait"
    \/ "destroy_all_sessions" \in {log[i] : i \in 1..Len(log)}

\* C10: on every path into teardown the client thread is shut down before
\* the destruction of any session is initiated; unregister_all_triggers
\* starts only once destroy_all_sessions_and_wait has returned, with the
\* session list empty; and from the moment the teardown of the sessions
\* begins no session is created and no trigger is registered.
C10_TeardownOrder ==
    /\ [](SessionTeardownBegun => "client" \notin running)
    /\ [](pc = "unregister_all_triggers"
              => /\ \A i \in 1..MaxSessions : sessions[i] = "absent"
                 /\ log[Len(log)] = "session_list_empty")
    /\ [][SessionTeardownBegun
              => /\ \A i \in 1..MaxSessions :
                        sessions'[i] = "active" => sessions[i] = "active"
                 /\ triggers' \subseteq triggers]_vars

C10_Witness ==
    /\ pc = "unregister_all_triggers"
    /\ "client_thread" \in made
    /\ failed_step = "none"
    /\ triggers # {}
    /\ log = <<"client_thread_shutdown", "destroy_all_sessions", "session_list_empty">>

\* The teardown step `step` has been performed.
Performed(step) == \E i \in 1..Len(log) : log[i] = step

\* Every performance of step b comes after a performance of step a.
PerformedBefore(a, b) ==
    \A j \in 1..Len(log) : log[j] = b => \E i \in 1..(j - 1) : log[i] = a

\* main is at event_notifier_error_accounting_fini, or past it.
ErrorAccountingTeardownBegun ==
    \/ pc = "event_notifier_error_accounting_fini"
    \/ Performed("event_notifier_error_accounting_fini")

\* C11: event_notifier_error_accounting_fini runs only after the
\* registration thread and all orphan threads are shut down, after
\* sessiond_cleanup, after the second RCU barrier (which follows
\* sessiond_cleanup) and after the notification thread is shut down; kernel
\* modules are unloaded only when root and kernel tracing is not disabled,
\* and only after the error accounting teardown.
C11_ErrorAccountingTeardownOrder ==
    /\ ErrorAccountingTeardownBegun
           => /\ "register_apps" \notin running
              /\ running \cap Orphans = {}
              /\ "notification" \notin running
              /\ Performed("lttng_thread_list_shutdown_orphans")
              /\ Performed("sessiond_cleanup")
              /\ Performed("rcu_barrier_2")
              /\ PerformedBefore("sessiond_cleanup", "rcu_barrier_2")
              /\ PerformedBefore("rcu_barrier_1", "sessiond_cleanup")
    /\ Performed("modprobe_remove_lttng_all")
           => /\ cfg.is_root /\ ~cfg.no_kernel
              /\ PerformedBefore("event_notifier_error_accounting_fini",
                                 "modprobe_remove_lttng_all")

C11_Witness ==
    /\ pc = "rcu_barrier_3"
    /\ failed_step = "none"
    /\ Performed("register_apps_thread_shutdown")
    /\ Performed("notification_thread_shutdown")
    /\ Performed("modprobe_remove_lttng_all")

\* The steps of main that destroy a handle shared with the worker threads.
SharedHandleDestroySteps ==
    {"rotation_thread_handle_destroy", "rotation_thread_timer_queue_destroy",
     "notification_thread_handle_destroy", "lttng_pipe_destroy",
     "health_app_destroy"}

\* C12: the hash-table cleanup thread is the last worker thread shut down,
\* and no shared handle (rotation thread handle, rotation timer queue,
\* notification thread handle, channel monitor pipes, health subsystem) is
\* destroyed before every worker thread has been shut down.
C12_HtCleanupLast ==
    /\ [][("ht_cleanup" \in running /\ "ht_cleanup" \notin running')
              => running' = {}]_vars
    /\ []((pc \in SharedHandleDestroySteps
             \/ \E s \in SharedHandleDestroySteps : Performed(s))
              => running = {})

C12_Witness ==
    /\ pc = "exit_options"
    /\ failed_step = "none"
    /\ cfg.is_root /\ ~cfg.no_kernel
    /\ Performed("ht_cleanup_thread_shutdown")
    /\ \A s \in SharedHandleDestroySteps : Performed(s)

\* The worker threads main launches, and the position of the launch of
\* each among the initialization steps.
Workers == {InitSteps[i].thread : i \in 1..Len(InitSteps)} \ {""}

LaunchIndex(thread) == CHOOSE i \in 1..Len(InitSteps) : InitSteps[i].thread = thread

\* main shuts down and joins threads in this step.
MainShutsDown == pc' # pc /\ running' # running /\ running' \subseteq running

\* C13, as stated: threads are shut down in the strict reverse of the order
\* of their launch, so when main shuts a thread down every thread that is
\* still running was launched before it.  This does not hold: the client
\* thread is shut down first although the threads launched after it still
\* run.
C13_ReverseOfCreation ==
    [][MainShutsDown
          => \A a \in running \ running', b \in running' :
                 LaunchIndex(b) < LaunchIndex(a)]_vars

\* Place of a thread in the shutdown sequence of main: the client thread,
\* the application registration thread, the orphan threads, the
\* notification thread, the hash-table cleanup thread.
ShutdownRank(thread) ==
    CASE thread = "client" -> 1
      [] thread = "register_apps" -> 2
      [] thread = "notification" -> 4
      [] thread = "ht_cleanup" -> 5
      [] OTHER -> 3

\* C13, amended: main shuts the worker threads down in a fixed order that
\* is not the reverse of their launch: the client thread, then the
\* application registration thread, then the orphan threads, then the
\* notification thread, then the hash-table cleanup thread; when main shuts
\* a thread down, every thread still running comes later in this sequence.
\* The hash-table cleanup thread is the first launched and the last shut
\* down.
C13_ShutdownOrder ==
    /\ [][MainShutsDown
              => \A a \in running \ running', b \in running' :
                     ShutdownRank(a) < ShutdownRank(b)]_vars
    /\ [](\A t \in Workers : LaunchIndex("ht_cleanup") <= LaunchIndex(t))

C13_Witness ==
    /\ pc = "rotation_thread_handle_destroy"
    /\ failed_step = "none"
    /\ running = {}
    /\ Performed("client_thread_shutdown")
    /\ Performed("register_apps_thread_shutdown")
    /\ Performed("notification_thread_shutdown")
    /\ Performed("ht_cleanup_thread_shutdown")

\* C14: SIGINT or SIGTERM delivered to a fully initialized daemon writes a
\* notification to the quit pipe; main leaves sessiond_wait_for_quit_pipe
\* only once the pipe is notified, and from then on the teardown eventually
\* completes with every worker thread shut down and every spawned consumer
\* waited for; SIGUSR1 and SIGPIPE change neither the quit pipe nor the
\* position of main.
C14_SignalShutdown ==
    /\ [][((Signal("SIGINT") \/ Signal("SIGTERM")) /\ quit_pipe = "open")
              => quit_pipe' = "notified"]_vars
    /\ [][(pc = "sessiond_wait_for_quit_pipe" /\ pc' # pc)
              => quit_pipe = "notified"]_vars
    /\ (pc = "sessiond_wait_for_quit_pipe" /\ quit_pipe = "notified")
           ~> (/\ pc = "exited"
               /\ running = {}
               /\ \A c \in ConsumerTypes : consumers[c] \in {"none", "waited"})
    /\ [][(Signal("SIGUSR1") \/ Signal("SIGPIPE"))
              => (quit_pipe' = quit_pipe /\ pc' = pc)]_vars

C14_Witness ==
    /\ pc = "exited"
    /\ failed_step = "none"
    /\ exit_status = "EXIT_SUCCESS"
    /\ recv_child_signal = 1
    /\ running = {}
    /\ Performed("client_thread_shutdown")
    /\ consumers["ustconsumer64"] = "waited"

\* main has gone through sessiond_cleanup and sessiond_cleanup_lock_file and
\* has exited.
FullShutdown == pc = "exited" /\ Performed("sessiond_cleanup")

\* The paths the daemon itself creates under the runtime directory; the
\* command socket of a consumer is bound by the consumer daemon.
DaemonCreated ==
    {LockFile, PidFile, AgentPortFile, ClientSock, AppsSock}
        \cup {ConsumerDir(c) : c \in ConsumerTypes}
        \cup {ErrSock(c) : c \in ConsumerTypes}

\* C15: after a full shutdown every file and sub-directory the daemon
\* created under the runtime directory (pid file, lock file, agent port
\* file, consumer error sockets, consumer sub-directories, client and
\* application sockets) is removed, and the runtime directory itself is
\* still there.  Stated as the claim states it; it does not hold for the
\* sub-directory of a consumer that still runs when sessiond_cleanup calls
\* rmdir.
C15_RuntimeFilesRemoved ==
    FullShutdown => (files \cap DaemonCreated = {} /\ RunDir \in files)

(***************************************************************************)
(* Properties of set_option and set_options (SpecOptions).                 *)
(***************************************************************************)
\* The last option handed to set_option is `name`.
LastOptionIs(name) ==
    /\ opt_call.last.origin \in {"file", "cmdline"}
    /\ opt_call.last.optname = name
    /\ opt_call.last.origin = "file" => opt_call.last.arg # NULL

\* The argument denotes a number the numeric options accept.
DenotesValidNumber(arg) ==
    /\ Len(arg) > 0
    /\ isdigit(arg[1])
    /\ 1 <= strtoul(arg)
    /\ strtoul(arg) <= 65534

\* The configuration `before` with the numeric option `name` set to v.
WithNumber(before, name, v) ==
    IF name = "agent-tcp-port"
    THEN [before EXCEPT !.agent_tcp_port = [begin |-> v, end |-> v]]
    ELSE [before EXCEPT !.event_notifier_error_counter_bucket = v]

\* The last call took or refused the argument as the claim states.
AcceptedIffValid(name) ==
    LET last == opt_call.last
    IN  IF DenotesValidNumber(last.arg)
        THEN last.ret = 0 /\ config = WithNumber(last.before, name, strtoul(last.arg))
        ELSE last.ret = -1 /\ config = last.before

\* C16 as stated: both numeric options accept their argument exactly when
\* it starts with a digit and denotes a value in 1..65534; an accepted
\* value is in the configuration, a refused one makes set_option return -1
\* and leaves the configuration as it was.
C16_NumericOptionsAsStated ==
    \A name \in NumberOptions : LastOptionIs(name) => AcceptedIffValid(name)

\* C16 amended: event-notifier-error-number-of-bucket behaves as stated;
\* agent-tcp-port behaves as stated for a non-empty argument of a binary
\* that is neither setuid nor setgid, returns -EINVAL for an empty argument
\* and, in a setuid or setgid binary, ignores a non-empty argument and
\* returns 0; the configuration is unchanged in both cases.
C16_NumericOptions ==
    /\ LastOptionIs("event-notifier-error-number-of-bucket")
           => AcceptedIffValid("event-notifier-error-number-of-bucket")
    /\ LastOptionIs("agent-tcp-port") =>
           IF opt_call.last.arg = <<>>
           THEN opt_call.last.ret = -EINVAL /\ config = opt_call.last.before
           ELSE IF setuid THEN opt_call.last.ret = 0 /\ config = opt_call.last.before
           ELSE AcceptedIffValid("agent-tcp-port")

\* The number of buckets was set to the largest value of the range, then
\* the smallest value above the range was refused and left it there.
C16_Witness ==
    /\ LastOptionIs("event-notifier-error-number-of-bucket")
    /\ opt_call.last.arg = <<54, 53, 53, 51, 53>>
    /\ opt_call.last.ret = -1
    /\ opt_call.last.before.event_notifier_error_counter_bucket = 65534
    /\ config.event_notifier_error_counter_bucket = 65534

\* The options that carry a path, and the field of the configuration each
\* sets.
PathOptions == (DOMAIN StringFieldOf \ {"group"}) \cup {"config"}

PathFieldOf(name) == IF name = "config" THEN "config_path" ELSE StringFieldOf[name]

\* C17: in a setuid or setgid daemon, a path-bearing option, met on the
\* command line or in the configuration file, leaves its field of the
\* configuration with the value it had before the option was processed.
C17_SetuidRefusesPaths ==
    setuid =>
        \A name \in PathOptions :
            (opt_call.last.origin # "none" /\ opt_call.last.optname = name)
                => config[PathFieldOf(name)] = opt_call.last.before[PathFieldOf(name)]

\* A setuid daemon was given a socket path on the command line, set_option
\* returned 0 and the field still holds its default.
C17_Witness ==
    /\ setuid
    /\ opt_call.last.origin = "cmdline"
    /\ opt_call.last.optname = "client-sock"
    /\ opt_call.last.arg = <<47, 112>>
    /\ opt_call.last.ret = 0
    /\ config.client_unix_sock_path = DefaultString

(***************************************************************************)
(* Properties of the event-notifier error accounting (SpecAccounting).     *)
(***************************************************************************)
RegisteredTriggers == {t \in AcctTriggers : accounting.indices[t] # NoIndex}

\* C18: the number of indices in use is the number of registered triggers,
\* no two triggers hold the same index, a registration fails with
\* NO_INDEX_AVAILABLE exactly when all nb_bucket indices were in use, and
\* an unregistration frees the index of the trigger, which leaves room for
\* a registration.
C18_IndexPool ==
    accounting.state = "init" =>
        /\ Cardinality(accounting.allocated) = Cardinality(RegisteredTriggers)
        /\ accounting.allocated = {accounting.indices[t] : t \in RegisteredTriggers}
        /\ \A t, u \in RegisteredTriggers :
               accounting.indices[t] = accounting.indices[u] => t = u
        /\ accounting.allocated \subseteq 0..(accounting.nb_bucket - 1)
        /\ acct_call.op = "register" =>
               /\ acct_call.status \in {"OK", "NO_INDEX_AVAILABLE"}
               /\ acct_call.status = "NO_INDEX_AVAILABLE"
                      <=> acct_call.in_use = accounting.nb_bucket
               /\ acct_call.status = "OK"
                      => accounting.indices[acct_call.trigger] = acct_call.index
        /\ (acct_call.op = "unregister" /\ acct_call.status = "OK") =>
               /\ acct_call.index \notin accounting.allocated
               /\ FreeIndices(accounting) # {}

\* With two buckets, triggers 1 and 2 hold the two indices and trigger 3
\* was refused.
C18_Witness ==
    /\ accounting.state = "init"
    /\ accounting.nb_bucket = 2
    /\ RegisteredTriggers = {1, 2}
    /\ acct_call.op = "register"
    /\ acct_call.trigger = 3
    /\ acct_call.status = "NO_INDEX_AVAILABLE"
    /\ acct_call.in_use = 2

(***************************************************************************)
(* Properties of the reference count of a rule (SpecRef).                  *)
(***************************************************************************)
Releasing == {h \in Holders : holders[h].pc = "release"}

\* The destroy callback runs once, at the put that brought the count to
\* zero, and not while the count is positive.
DestroyedOnceAtZero ==
    /\ ref.destroyed <= 1
    /\ ref.destroyed = 1 => ref.zero
    /\ Releasing # {} => ref.refcount = 0
    /\ ref.zero => ref.destroyed + Cardinality(Releasing) = 1

\* A get that began after the count had reached zero returned false, and
\* the count stays at zero.
NoGetAfterZero ==
    /\ \A h \in Holders :
           (holders[h].late /\ holders[h].pc # "get") => holders[h].got = "false"
    /\ ref.zero => ref.refcount = 0

SameLogLevelRule(a, b) ==
    \/ a = NullLLR /\ b = NullLLR
    \/ a # NullLLR /\ b # NullLLR /\ a.type = b.type /\ a.level = b.level

\* The two rules have the same domain, pattern, filter, log-level rule and
\* exclusions, index by index.
SameTracepointRule(a, b) ==
    /\ a.domain = b.domain
    /\ a.pattern = b.pattern
    /\ \/ a.filter_expression = NULL /\ b.filter_expression = NULL
       \/ /\ a.filter_expression # NULL
          /\ b.filter_expression # NULL
          /\ a.filter_expression = b.filter_expression
    /\ SameLogLevelRule(a.log_level_rule, b.log_level_rule)
    /\ Len(a.exclusions) = Len(b.exclusions)
    /\ \A i \in 1..Len(a.exclusions) : a.exclusions[i] = b.exclusions[i]

StringIn(buffer) ==
    LET zeros == {i \in 1..Len(buffer) : buffer[i] = 0}
        first == IF zeros = {} THEN Len(buffer) + 1
                 ELSE CHOOSE i \in zeros : \A j \in zeros : i <= j
    IN  SubSeq(buffer, 1, first - 1)

\* The structure holds the exclusions of the rule, in the order they were
\* added, each in a field of LTTNG_SYMBOL_NAME_LEN bytes.
HoldsExclusionsOf(exclusions, r) ==
    /\ exclusions # NullExclusions
    /\ exclusions.count = Len(r.exclusions)
    /\ DOMAIN exclusions.names = 1..Len(r.exclusions)
    /\ \A i \in 1..Len(r.exclusions) :
           /\ Len(exclusions.names[i]) = LTTNG_SYMBOL_NAME_LEN
           /\ StringIn(exclusions.names[i]) = r.exclusions[i]

\* C21 as stated: generate_exclusions returns OK with the N names exactly
\* when the rule is a UST rule with N >= 1 exclusions, and NONE with no
\* structure otherwise.
C21_GenerateExclusionsAsStated ==
    call.op = "generate_exclusions" =>
        IF rule.domain = LTTNG_DOMAIN_UST /\ Len(rule.exclusions) >= 1
        THEN call.status = "OK" /\ HoldsExclusionsOf(call.arg.exclusions, rule)
        ELSE call.status = "NONE" /\ call.arg.exclusions = NullExclusions

\* C21 amended: the same when the allocation of the structure succeeds; when
\* it fails, for a UST rule with exclusions, the status is OUT_OF_MEMORY and
\* there is no structure.
C21_GenerateExclusions ==
    call.op = "generate_exclusions" =>
        IF rule.domain = LTTNG_DOMAIN_UST /\ Len(rule.exclusions) >= 1
        THEN IF call.arg.zmalloc_fails
             THEN call.status = "OUT_OF_MEMORY" /\ call.arg.exclusions = NullExclusions
             ELSE call.status = "OK" /\ HoldsExclusionsOf(call.arg.exclusions, rule)
        ELSE call.status = "NONE" /\ call.arg.exclusions = NullExclusions

\* A UST rule with the exclusions "y" then "x" gave a structure of two names.
C21_Witness ==
    /\ call.op = "generate_exclusions"
    /\ call.status = "OK"
    /\ rule.exclusions = <<(<<121>>), (<<120>>)>>
    /\ call.arg.exclusions.count = 2
    /\ StringIn(call.arg.exclusions.names[1]) = <<121>>

HeaderOffset == view_offset + EventRuleCommSize

HeaderField(offset) == Uint32Field(payload, HeaderOffset + offset)

\* The bytes the log level rule takes once serialized on its own.
LogLevelRuleBytes(llr) == Len(lttng_log_level_rule_serialize(llr, <<>>))

\* Each exclusion takes a length field, its characters and the terminator.
RECURSIVE SumOfExclusions(_, _)
SumOfExclusions(exclusions, i) ==
    IF i > Len(exclusions) THEN 0
    ELSE 4 + strlen(exclusions[i]) + 1 + SumOfExclusions(exclusions, i + 1)

\* C23: after a successful serialization into a payload that may hold
\* earlier bytes, the header at the entry offset has log_level_rule_len
\* equal to the bytes the log level rule took (0 without one) and
\* exclusions_len equal to the sum over the exclusions of 4 + strlen + 1;
\* the bytes appended are the header, pattern_len, filter_expression_len,
\* log_level_rule_len and exclusions_len together; and the assertion
\* exclusions_len == exclusions_appended_len never fails.
C23_SerializedLengths ==
    /\ call.op # "serialize aborted"
    /\ (call.op = "serialize" /\ call.status = 0) =>
        /\ HeaderField(OffLogLevelRuleLen) = LogLevelRuleBytes(rule.log_level_rule)
        /\ rule.log_level_rule = NullLLR => HeaderField(OffLogLevelRuleLen) = 0
        /\ HeaderField(OffExclusionsLen) = SumOfExclusions(rule.exclusions, 1)
        /\ Len(payload) - HeaderOffset =
               TracepointCommSize + HeaderField(OffPatternLen)
               + HeaderField(OffFilterExpressionLen)
               + HeaderField(OffLogLevelRuleLen) + HeaderField(OffExclusionsLen)

\* A rule with a log level rule and two exclusions is serialized after a
\* byte the payload already held: log_level_rule_len is 5, exclusions_len 12.
C23_Witness ==
    /\ call.op = "serialize"
    /\ call.status = 0
    /\ view_offset = 1
    /\ rule.log_level_rule # NullLLR
    /\ Len(rule.exclusions) = 2
    /\ HeaderField(OffLogLevelRuleLen) = 5
    /\ HeaderField(OffExclusionsLen) = 12

(***************************************************************************)
(* Properties of destroy_all_sessions_and_wait (SpecDestroy).              *)
(***************************************************************************)
\* The loop over the list is over.
LoopDone == session_list.pc \in {"session_list_wait_empty", "returned"}

\* What the loop found when it took the list lock.
FoundLive(s) ==
    /\ session_list.entry[s].on_list
    /\ ~session_list.entry[s].destroyed
    /\ session_list.entry[s].refcount > 0

\* C24: destroy_all_sessions_and_wait issues stop-trace then destroy exactly
\* once on every session of the list that is not marked destroyed, issues
\* nothing on a session marked destroyed or whose reference cannot be taken,
\* has released every session lock, the list lock and every reference it
\* took when the loop is over, and returns only once the list is empty.
C24_DestroyAllSessions ==
    session_list # <<>> =>
        /\ \A s \in Listed :
               /\ session_list.sessions[s].ops
                      \in {<<>>, <<"stop_trace">>, <<"stop_trace", "destroy_session">>}
               /\ session_list.sessions[s].ops # <<>> => FoundLive(s)
               /\ LoopDone =>
                      /\ FoundLive(s) =>
                             session_list.sessions[s].ops
                                 = <<"stop_trace", "destroy_session">>
                      /\ ~session_list.sessions[s].locked
        /\ LoopDone => session_list.taken = {} /\ ~session_list.list_locked
        /\ session_list.pc = "returned" =>
               \A s \in Listed : ~session_list.sessions[s].on_list

\* The function has returned after it destroyed the first session, passed
\* over the second one, marked destroyed, and over the third one, whose
\* reference could not be taken.
C24_Witness ==
    /\ session_list # <<>>
    /\ session_list.pc = "returned"
    /\ FoundLive(1)
    /\ session_list.sessions[1].ops = <<"stop_trace", "destroy_session">>
    /\ session_list.entry[2].destroyed /\ session_list.entry[2].refcount > 0
    /\ session_list.sessions[2].ops = <<>>
    /\ session_list.entry[3].on_list /\ session_list.entry[3].refcount = 0
    /\ session_list.sessions[3].ops = <<>>

(***************************************************************************)
(* Properties of get_exclusion_at_index (SpecRule).                        *)
(***************************************************************************)
\* C25: on a tracepoint rule, get_exclusion_at_index returns OK if and only
\* if the index is smaller than the exclusion count, and when it returns OK
\* the output is the exclusion added at that position.
C25_ExclusionAtIndex ==
    call.op = "get_exclusion_at_index" =>
        /\ call.status = "OK" <=> call.arg.index < Len(rule.exclusions)
        /\ call.status = "OK" =>
               /\ call.arg.written
               /\ call.arg.exclusion = rule.exclusions[call.arg.index + 1]

\* A step on a rule that stays the same object keeps the exclusions it had,
\* in their order.
ExclusionsKept ==
    [][(rule # NullRule /\ rule' # NullRule /\ call'.op # "create")
           => /\ Len(rule'.exclusions) >= Len(rule.exclusions)
              /\ SubSeq(rule'.exclusions, 1, Len(rule.exclusions)) = rule.exclusions]_vars

(***************************************************************************)
(* Properties of the type tag (SpecApply).                                 *)
(***************************************************************************)
\* C26: for every payload and every type tag, create_from_payload ends with
\* a negative value or with a positive count of bytes and a valid rule; no
\* assertion fails, and no rule is handed back with a negative value.
C26_EveryTypeTag ==
    call.op = "create_from_payload" =>
        /\ ~decoded.aborted
        /\ decoded.ret < 0 => decoded.rule = NullRule
        /\ decoded.ret >= 0 =>
               /\ decoded.ret > 0
               /\ lttng_event_rule_validate(decoded.rule)

(***************************************************************************)
(* Properties of the agent filter (SpecApply).                             *)
(***************************************************************************)
\* The text holds the expression somewhere.
HoldsExpression(text, expression) ==
    \E k \in 0..(Len(text) - Len(expression)) :
        SubSeq(text, k + 1, k + Len(expression)) = expression

\* C27: on a rule of an agent domain that has a user filter, a successful
\* generate_filter_bytecode leaves an internal filter that contains the user
\* filter, whatever the pattern ("*" or not) and with or without a log level
\* rule.
C27_UserFilterKept ==
    (/\ call.op = "generate_filter_bytecode"
     /\ call.status = "LTTNG_OK"
     /\ rule.domain \in AgentDomains
     /\ rule.filter_expression # NULL)
        => /\ rule.internal_filter.filter # NULL
           /\ HoldsExpression(rule.internal_filter.filter, rule.filter_expression)

\* The same for the rules whose pattern is not "*" or that have a log level
\* rule: the user filter is part of the internal filter.
UserFilterKeptUnlessBare ==
    (/\ call.op = "generate_filter_bytecode"
     /\ call.status = "LTTNG_OK"
     /\ rule.domain \in AgentDomains
     /\ rule.filter_expression # NULL
     /\ (strcmp(rule.pattern, <<42>>) # 0 \/ rule.log_level_rule # NullLLR))
        => /\ rule.internal_filter.filter # NULL
           /\ HoldsExpression(rule.internal_filter.filter, rule.filter_expression)

(***************************************************************************)
(* Properties of the refused setter calls (SpecRule).                      *)
(***************************************************************************)
Setters == {"set_pattern", "set_filter", "set_log_level_rule", "add_exclusion"}

GuardedStepsUseWhatExists ==
    /\ (pc = "stop_threads" /\ log' # log) => "client_thread" \in made
    /\ (/\ pc = "destroy_all_sessions_and_wait"
        /\ pc' # pc
        /\ \E i \in 1..MaxSessions : sessions[i] = "active")
           => "notification_thread_handle" \in made
    /\ (/\ pc \in TeardownStepNames
        /\ log' # log
        /\ TeardownSteps[TeardownIndex(pc)].needs # "")
           => TeardownSteps[TeardownIndex(pc)].needs \in made

\* unregister_all_triggers hands the notification thread handle to
\* notification_thread_command_list_triggers whenever it runs.
UnregisterUsesHandleThatExists ==
    (pc = "unregister_all_triggers" /\ pc' # pc)
        => "notification_thread_handle" \in made

\* C29: after a failed initialization step, each step of the teardown uses
\* only a thread, handle, pipe or queue that was created:
\* destroy_all_sessions_and_wait and unregister_all_triggers use the
\* notification thread handle only when it exists, and the shutdown or
\* destruction of an object that was never created is skipped.
C29_TeardownUsesWhatExists ==
    [][GuardedStepsUseWhatExists /\ UnregisterUsesHandleThatExists]_vars

\* The same without unregister_all_triggers.
GuardedTeardownUsesWhatExists == [][GuardedStepsUseWhatExists]_vars

(***************************************************************************)
(* Properties of a second instance (SpecSecond).                           *)
(***************************************************************************)
\* C30: a daemon started while another one is alive or holds the lock file
\* fails at check_existing_daemon and exits: it never goes past that step,
\* sessiond_cleanup does not run, and no step removes or adds a file under
\* the runtime directory, so that the lock file, the pid file, the agent
\* port file, the sockets and the consumer directories of the first
\* instance stay; the lock file is removed only by the instance that
\* acquired it.
C30_SecondInstance ==
    /\ [](/\ "lockfile" \notin made
          /\ running = {}
          /\ \A i \in 1..Len(log) : log[i] # "sessiond_cleanup"
          /\ pc \in InitStepNames =>
                 StepIndex(pc) <= StepIndex("check_existing_daemon")
          /\ pc \in InitStepNames \cup {"exit_options", "exit_set_signal_handler",
                                         "exited"})
    /\ [][files' = files]_vars

\* The second instance has exited with a failure after check_existing_daemon
\* failed on the lock the first instance holds; the first instance's lock
\* file, pid file and client socket are in place.
C30_Witness ==
    /\ cfg.first_instance = "holds_lock"
    /\ pc = "exited"
    /\ failed_step = "check_existing_daemon"
    /\ exit_status = "EXIT_FAILURE"
    /\ {LockFile, PidFile, ClientSock} \subseteq files

====
